---- MODULE Spec2Model ----
(***************************************************************************)
(* Model of the pentair_cloud accumulators (custom_components/             *)
(* pentair_cloud/sensor.py): the Rate Integrator                           *)
(* (PentairCumulativeGallonsSensor, daily and lifetime), the               *)
(* Active-Duration Tracker (PentairDailyRuntimeSensor), the Counter-Delta  *)
(* Tracker (PentairCumulativeRuntimeSensor), and their restore-on-restart  *)
(* hooks.                                                                  *)
(*                                                                         *)
(* Units.  Python floats are modelled as exact rationals with a fixed      *)
(* denominator, so every total is an integer:                              *)
(*   total_gallons  in 1/600 gallon: flow is int(raw)/10 gallons/minute    *)
(*                  and elapsed is seconds/60 minutes, so one tick adds    *)
(*                  int(raw) * seconds units;                              *)
(*   total_hours    in 1/3600 hour, i.e. seconds;                          *)
(*   total_seconds  in seconds.                                            *)
(* native_value rounds: gallons to 0.1 gallon (60 units), hours to 0.01    *)
(* hour (36 units); a persisted value is the rounded number.               *)
(***************************************************************************)
EXTENDS Integers, Sequences, FiniteSets, TLC

VARIABLES
    now,                \* last reading of time.monotonic(), in seconds
    today,              \* last reading of datetime.date.today(), a day number
    added,              \* the entities added to hass (enabled in the registry)
    gallons,            \* PentairCumulativeGallonsSensor fields, per entity
    daily_runtime,      \* PentairDailyRuntimeSensor fields, per entity
    cumulative_runtime, \* PentairCumulativeRuntimeSensor fields, per entity
    daily_gallons,      \* hass.data[DOMAIN][entry_id]["daily_gallons"], per device
    ev,                 \* the last operation: its inputs and the state it found
    options,            \* config_entry.options, per option key
    hist,               \* the ticks an accumulator got since it was created
    switch,             \* one PentairCloudSwitch, its timers and commands
    options_flow        \* the OptionsFlowHandler of the options flow

vars == <<now, today, added, gallons, daily_runtime, cumulative_runtime,
          daily_gallons, ev, options, hist, switch, options_flow>>

---------------------------------------------------------------------------
(* Bounds of the model. *)

MaxNow == 260           \* monotonic clock readings explored: 0..MaxNow seconds
MaxDay == 1            \* calendar days explored: 0..MaxDay
MaxTotalSeconds == 225  \* cap on the Counter-Delta Tracker's total
MaxRun == 3             \* ticks recorded per accumulator run
MaxClock == 330         \* event loop times explored: 0..MaxClock seconds
MaxCommands == 2        \* turn-on/turn-off commands given to the switch

(* Program constants. *)

DEFAULT_POOL_SIZE == 20000  \* const.py: DEFAULT_POOL_SIZE = 20000
DEFAULT_TARGET_TURNOVERS == 10  \* const.py: DEFAULT_TARGET_TURNOVERS = 1.0, in tenths
MaxElapsed == 120           \* if elapsed > 120: elapsed = 120
GallonsRoundUnit == 60      \* round(total_gallons, 1): 0.1 gallon = 60/600
HoursRoundUnit == 36        \* round(hours, 2): 0.01 hour = 36 seconds

---------------------------------------------------------------------------
(* Optional values and raw field values. *)

None == [k |-> "none"]
Some(x) == [k |-> "some", v |-> x]

\* A raw field of sensor_data: absent, a string int() rejects, or an integer string.
RawAbsent == [k |-> "absent"]
RawText == [k |-> "text"]
RawInt(n) == [k |-> "int", v |-> n]

\* int(raw) under try/except (ValueError, TypeError), after the None test:
\* None when the field is absent or not an integer.
ParseInt(raw) == IF raw.k = "int" THEN Some(raw.v) ELSE None

---------------------------------------------------------------------------
(* Entities created by async_setup_entry. *)

Devices == {"d1", "d2"}

GallonsKinds == {"total_gallons", "daily_gallons"}
DailyRuntimeKinds == {"daily_runtime"}
CumulativeRuntimeKinds ==
    {"motor_run_time", "relay_1_daily_runtime", "relay_2_daily_runtime"}

GallonsEntities == Devices \X GallonsKinds
DailyRuntimeEntities == Devices \X DailyRuntimeKinds
CumulativeRuntimeEntities == Devices \X CumulativeRuntimeKinds
Entities == GallonsEntities \cup DailyRuntimeEntities \cup CumulativeRuntimeEntities

\* PentairCumulativeGallonsSensor(hub, device, daily=...)
Daily(e) == e[2] = "daily_gallons"

---------------------------------------------------------------------------
(* Dates.  date.isoformat() of day d is the string IsoDate(d); the         *)
(* last_reset attribute is a datetime at midnight UTC, persisted as its    *)
(* isoformat() string and read back with datetime.fromisoformat().         *)

IsoDate(d) == [k |-> "date", day |-> d]

\* datetime.datetime.combine(date.today(), datetime.time.min, tzinfo=utc)
MidnightOf(d) == [k |-> "datetime", day |-> d, second |-> 0]

\* last_reset.isoformat(): the state attribute as a string
DatetimeIsoformat(dt) == [k |-> "isostring", day |-> dt.day, second |-> dt.second]

\* A last_reset attribute fromisoformat() rejects
GarbledAttr == [k |-> "garbled"]

\* datetime.fromisoformat(attr) under try/except: None on ValueError/TypeError
FromIsoformat(attr) ==
    IF attr.k = "isostring"
    THEN Some([k |-> "datetime", day |-> attr.day, second |-> attr.second])
    ELSE None

\* last_reset_dt.date().isoformat()
DateIsoformatOf(dt) == IsoDate(dt.day)

---------------------------------------------------------------------------
(* Rounding and the persisted representation of a total. *)

\* Python round(n / d) for integers n, d > 0: nearest, ties to even.
RoundHalfEven(n, d) ==
    LET q == n \div d
        r == n % d
    IN  IF 2 * r < d THEN q
        ELSE IF 2 * r > d THEN q + 1
        ELSE IF q % 2 = 0 THEN q ELSE q + 1

\* PentairCumulativeGallonsSensor.native_value: round(total_gallons, 1),
\* as a number of tenths of a gallon.
GallonsNativeValue(s) == RoundHalfEven(s.total_gallons, GallonsRoundUnit)

\* PentairDailyRuntimeSensor.native_value: round(total_hours, 2),
\* as a number of hundredths of an hour.
DailyRuntimeNativeValue(s) == RoundHalfEven(s.total_hours, HoursRoundUnit)

\* PentairCumulativeRuntimeSensor.native_value: round(total_seconds / 3600, 2),
\* as a number of hundredths of an hour.
CumulativeRuntimeNativeValue(s) == RoundHalfEven(s.total_seconds, HoursRoundUnit)

\* What the restore store hands back: async_get_last_sensor_data() and the
\* last_reset attribute of async_get_last_state().
NoLastData == [k |-> "none"]
LastData(nv, attr) == [k |-> "data", native_value |-> nv, last_reset |-> attr]

\* native_value of the stored data: None, a number, or something float() rejects
ValueNone == [k |-> "none"]
ValueText == [k |-> "text"]
ValueNum(v) == [k |-> "num", v |-> v]

\* the last_reset attribute is missing from the stored state
AttrAbsent == [k |-> "absent"]

\* `if last_data and last_data.native_value is not None`
HasRestorableValue(last) == last.k = "data" /\ last.native_value.k # "none"

\* try: restored = float(native_value) except (ValueError, TypeError): restored = 0.0
RestoredValue(last) ==
    IF last.native_value.k = "num" THEN last.native_value.v ELSE 0

\* last_reset_date of async_added_to_hass: None unless the attribute is
\* present and parses, else the iso date of the parsed datetime.
RestoredResetDate(last) ==
    IF last.last_reset.k = "absent" THEN None
    ELSE LET dt == FromIsoformat(last.last_reset)
         IN  IF dt = None THEN None ELSE Some(DateIsoformatOf(dt.v))

---------------------------------------------------------------------------
(* Shared arithmetic of the update methods. *)

\* ClampElapsed without the cap.
ClampElapsedOff(elapsed) == elapsed

\* elapsed = now - last_update_ts; if elapsed > 120: elapsed = 120
ClampElapsed(elapsed) == IF elapsed > MaxElapsed THEN MaxElapsed ELSE elapsed

\* FlowVolume without the `if flow_gpm > 0` guard: a negative rate subtracts.
FlowVolumeSigned(raw, elapsed_seconds) ==
    LET flow == ParseInt(raw)
    IN  IF flow = None THEN 0 ELSE flow.v * elapsed_seconds

\* FlowVolume multiplying the rate per minute by the elapsed seconds, the
\* division by 60.0 forgotten.
FlowVolumePerSecond(raw, elapsed_seconds) ==
    LET flow == ParseInt(raw)
    IN  IF flow = None THEN 0
        ELSE IF flow.v > 0 THEN flow.v * elapsed_seconds * 60
        ELSE 0

\* The gallons one tick adds (in 1/600 gallon): flow_gpm = int(raw) / 10.0 and,
\* if flow_gpm > 0, flow_gpm * (elapsed_seconds / 60.0); nothing when the raw
\* field is absent or int() rejects it.
FlowVolume(raw, elapsed_seconds) ==
    LET flow == ParseInt(raw)
    IN  IF flow = None THEN 0
        ELSE IF flow.v > 0 THEN flow.v * elapsed_seconds
        ELSE 0

\* PentairDailyRuntimeSensor._is_active: int(raw) > 0, False when the field is
\* absent or int() rejects it.
IsActive(raw) ==
    LET value == ParseInt(raw)
    IN  IF value = None THEN FALSE ELSE value.v > 0

\* CounterDelta without the counter-restart branch: always the difference.
CounterDeltaSubtract(current_seconds, last_raw_seconds) ==
    current_seconds - last_raw_seconds

\* The seconds one counter reading adds: the difference on a normal increase,
\* the new reading itself when the counter went back (pump/relay restarted).
CounterDelta(current_seconds, last_raw_seconds) ==
    IF current_seconds >= last_raw_seconds
    THEN current_seconds - last_raw_seconds
    ELSE current_seconds

---------------------------------------------------------------------------
(* PentairCumulativeGallonsSensor: the Rate Integrator. *)

\* __init__(hub, device, daily, config_entry), read on day t
GallonsInit(daily, t) ==
    [ total_gallons   |-> 0,
      last_update_ts  |-> None,
      last_reset_date |-> IF daily THEN Some(IsoDate(t)) ELSE None,
      attr_last_reset |-> IF daily THEN Some(MidnightOf(t)) ELSE None ]

\* GallonsAdded applying the daily date test to the lifetime sensor too.
GallonsAddedDateChecked(s, daily, last, t) ==
    LET restore ==
            /\ HasRestorableValue(last)
            /\ RestoredResetDate(last) = Some(IsoDate(t))
    IN  [ s EXCEPT
            !.total_gallons =
                IF restore THEN RestoredValue(last) * GallonsRoundUnit ELSE @,
            !.last_update_ts = None ]

\* async_added_to_hass on day t, given the restore store's answer
GallonsAdded(s, daily, last, t) ==
    LET restore ==
            /\ HasRestorableValue(last)
            /\ \/ ~daily
               \/ RestoredResetDate(last) = Some(IsoDate(t))
    IN  [ s EXCEPT
            !.total_gallons =
                IF restore THEN RestoredValue(last) * GallonsRoundUnit ELSE @,
            !.last_update_ts = None ]

\* GallonsUpdate with the midnight reset tested before the bootstrap return.
GallonsUpdateResetOnBootstrap(s, daily, n, t, raw) ==
    IF daily /\ s.last_reset_date # Some(IsoDate(t))
    THEN [ sensor |-> [ total_gallons   |-> 0,
                        last_update_ts  |-> Some(n),
                        last_reset_date |-> Some(IsoDate(t)),
                        attr_last_reset |-> Some(MidnightOf(t)) ],
           write |-> TRUE ]
    ELSE IF s.last_update_ts = None
    THEN [ sensor |-> [s EXCEPT !.last_update_ts = Some(n)], write |-> FALSE ]
    ELSE [ sensor |-> [ s EXCEPT
                          !.total_gallons =
                              @ + FlowVolume(raw, ClampElapsed(n - s.last_update_ts.v)),
                          !.last_update_ts = Some(n) ],
           write |-> TRUE ]

\* GallonsUpdate without the `return` of the midnight reset: the resetting
\* tick integrates its own contribution into the new day.
GallonsUpdateIntegratesAfterReset(s, daily, n, t, raw) ==
    IF s.last_update_ts = None
    THEN [ sensor |-> [s EXCEPT !.last_update_ts = Some(n)], write |-> FALSE ]
    ELSE LET elapsed_seconds == ClampElapsed(n - s.last_update_ts.v)
             reset == daily /\ s.last_reset_date # Some(IsoDate(t))
             base == IF reset THEN 0 ELSE s.total_gallons
         IN  [ sensor |->
                 [ total_gallons   |-> base + FlowVolume(raw, elapsed_seconds),
                   last_update_ts  |-> Some(n),
                   last_reset_date |->
                       IF reset THEN Some(IsoDate(t)) ELSE s.last_reset_date,
                   attr_last_reset |->
                       IF reset THEN Some(MidnightOf(t)) ELSE s.attr_last_reset ],
               write |-> TRUE ]

\* GallonsUpdate with the midnight reset applied whatever `daily` is: the
\* lifetime sensor, whose last-reset date is None, resets too.
GallonsUpdateResetsLifetime(s, daily, n, t, raw) ==
    IF s.last_update_ts = None
    THEN [ sensor |-> [s EXCEPT !.last_update_ts = Some(n)], write |-> FALSE ]
    ELSE IF s.last_reset_date # Some(IsoDate(t))
    THEN [ sensor |-> [ total_gallons   |-> 0,
                        last_update_ts  |-> Some(n),
                        last_reset_date |-> Some(IsoDate(t)),
                        attr_last_reset |-> Some(MidnightOf(t)) ],
           write |-> TRUE ]
    ELSE [ sensor |-> [ s EXCEPT
                          !.total_gallons =
                              @ + FlowVolume(raw, ClampElapsed(n - s.last_update_ts.v)),
                          !.last_update_ts = Some(n) ],
           write |-> TRUE ]

\* GallonsUpdate without the bootstrap return: a missing last_update_ts counts
\* as the clock's origin, so the first tick integrates the time since then.
GallonsUpdateFromOrigin(s, daily, n, t, raw) ==
    LET last == IF s.last_update_ts = None THEN 0 ELSE s.last_update_ts.v
        elapsed_seconds == ClampElapsed(n - last)
    IN  IF daily /\ s.last_reset_date # Some(IsoDate(t))
        THEN [ sensor |-> [ total_gallons   |-> 0,
                            last_update_ts  |-> Some(n),
                            last_reset_date |-> Some(IsoDate(t)),
                            attr_last_reset |-> Some(MidnightOf(t)) ],
               write |-> TRUE ]
        ELSE [ sensor |-> [ s EXCEPT
                              !.total_gallons = @ + FlowVolume(raw, elapsed_seconds),
                              !.last_update_ts = Some(n) ],
               write |-> TRUE ]

\* GallonsUpdate that moves last_update_ts only inside the `if raw is not
\* None` block: a tick without a readable rate leaves the timestamp behind.
GallonsUpdateSkipsTimestamp(s, daily, n, t, raw) ==
    IF s.last_update_ts = None
    THEN [ sensor |-> [s EXCEPT !.last_update_ts = Some(n)], write |-> FALSE ]
    ELSE LET elapsed_seconds == ClampElapsed(n - s.last_update_ts.v)
         IN  IF daily /\ s.last_reset_date # Some(IsoDate(t))
             THEN [ sensor |-> [ total_gallons   |-> 0,
                                 last_update_ts  |-> Some(n),
                                 last_reset_date |-> Some(IsoDate(t)),
                                 attr_last_reset |-> Some(MidnightOf(t)) ],
                    write |-> TRUE ]
             ELSE [ sensor |-> [ s EXCEPT
                                   !.total_gallons = @ + FlowVolume(raw, elapsed_seconds),
                                   !.last_update_ts =
                                       IF ParseInt(raw) = None THEN @ ELSE Some(n) ],
                    write |-> TRUE ]

\* GallonsUpdate whose day-rollover reset returns without calling
\* _write_daily_gallons().
GallonsUpdateResetUnpublished(s, daily, n, t, raw) ==
    IF s.last_update_ts = None
    THEN [ sensor |-> [s EXCEPT !.last_update_ts = Some(n)], write |-> FALSE ]
    ELSE LET elapsed_seconds == ClampElapsed(n - s.last_update_ts.v)
         IN  IF daily /\ s.last_reset_date # Some(IsoDate(t))
             THEN [ sensor |-> [ total_gallons   |-> 0,
                                 last_update_ts  |-> Some(n),
                                 last_reset_date |-> Some(IsoDate(t)),
                                 attr_last_reset |-> Some(MidnightOf(t)) ],
                    write |-> FALSE ]
             ELSE [ sensor |-> [ s EXCEPT
                                   !.total_gallons = @ + FlowVolume(raw, elapsed_seconds),
                                   !.last_update_ts = Some(n) ],
                    write |-> TRUE ]

\* update() reading time.monotonic() = n, date.today() = t and s26 = raw.
\* write: whether _write_daily_gallons() was called.
GallonsUpdate(s, daily, n, t, raw) ==
    IF s.last_update_ts = None
    THEN [ sensor |-> [s EXCEPT !.last_update_ts = Some(n)], write |-> FALSE ]
    ELSE LET elapsed_seconds == ClampElapsed(n - s.last_update_ts.v)
         IN  IF daily /\ s.last_reset_date # Some(IsoDate(t))
             THEN [ sensor |-> [ total_gallons   |-> 0,
                                 last_update_ts  |-> Some(n),
                                 last_reset_date |-> Some(IsoDate(t)),
                                 attr_last_reset |-> Some(MidnightOf(t)) ],
                    write |-> TRUE ]
             ELSE [ sensor |-> [ s EXCEPT
                                   !.total_gallons = @ + FlowVolume(raw, elapsed_seconds),
                                   !.last_update_ts = Some(n) ],
                    write |-> TRUE ]

---------------------------------------------------------------------------
(* PentairDailyRuntimeSensor: the Active-Duration Tracker. *)

\* DailyRuntimeInit leaving the last-reset date unset, as the lifetime
\* gallons sensor does.
DailyRuntimeInitNoDate(t) ==
    [ total_hours     |-> 0,
      last_update_ts  |-> None,
      last_reset_date |-> None,
      attr_last_reset |-> None ]

\* __init__ read on day t
DailyRuntimeInit(t) ==
    [ total_hours     |-> 0,
      last_update_ts  |-> None,
      last_reset_date |-> Some(IsoDate(t)),
      attr_last_reset |-> Some(MidnightOf(t)) ]

\* async_added_to_hass on day t
DailyRuntimeAdded(s, last, t) ==
    LET restore ==
            /\ HasRestorableValue(last)
            /\ RestoredResetDate(last) = Some(IsoDate(t))
    IN  [ s EXCEPT
            !.total_hours =
                IF restore THEN RestoredValue(last) * HoursRoundUnit ELSE @,
            !.last_update_ts = None ]

\* DailyRuntimeUpdate without the bootstrap return: a missing last_update_ts
\* counts as the clock's origin.
DailyRuntimeUpdateFromOrigin(s, n, t, raw) ==
    LET last == IF s.last_update_ts = None THEN 0 ELSE s.last_update_ts.v
        elapsed == ClampElapsed(n - last)
        reset == s.last_reset_date # Some(IsoDate(t))
        base == IF reset THEN 0 ELSE s.total_hours
    IN  [ total_hours     |-> IF IsActive(raw) THEN base + elapsed ELSE base,
          last_update_ts  |-> Some(n),
          last_reset_date |-> IF reset THEN Some(IsoDate(t)) ELSE s.last_reset_date,
          attr_last_reset |-> IF reset THEN Some(MidnightOf(t)) ELSE s.attr_last_reset ]

\* DailyRuntimeUpdate returning right after the midnight reset, as the
\* gallons sensor does: the resetting tick adds nothing.
DailyRuntimeUpdateReturnsAfterReset(s, n, t, raw) ==
    IF s.last_update_ts = None
    THEN [s EXCEPT !.last_update_ts = Some(n)]
    ELSE IF s.last_reset_date # Some(IsoDate(t))
    THEN [ total_hours     |-> 0,
           last_update_ts  |-> Some(n),
           last_reset_date |-> Some(IsoDate(t)),
           attr_last_reset |-> Some(MidnightOf(t)) ]
    ELSE [ s EXCEPT
             !.total_hours =
                 IF IsActive(raw) THEN @ + ClampElapsed(n - s.last_update_ts.v) ELSE @,
             !.last_update_ts = Some(n) ]

\* DailyRuntimeUpdate that measures every tick from the first one: the
\* timestamp is not moved after the bootstrap.
DailyRuntimeUpdateKeepsTimestamp(s, n, t, raw) ==
    IF s.last_update_ts = None
    THEN [s EXCEPT !.last_update_ts = Some(n)]
    ELSE LET elapsed == ClampElapsed(n - s.last_update_ts.v)
             reset == s.last_reset_date # Some(IsoDate(t))
             base == IF reset THEN 0 ELSE s.total_hours
         IN  [ total_hours     |-> IF IsActive(raw) THEN base + elapsed ELSE base,
               last_update_ts  |-> s.last_update_ts,
               last_reset_date |-> IF reset THEN Some(IsoDate(t)) ELSE s.last_reset_date,
               attr_last_reset |-> IF reset THEN Some(MidnightOf(t)) ELSE s.attr_last_reset ]

\* update() reading time.monotonic() = n, date.today() = t and the field = raw
DailyRuntimeUpdate(s, n, t, raw) ==
    IF s.last_update_ts = None
    THEN [s EXCEPT !.last_update_ts = Some(n)]
    ELSE LET elapsed == ClampElapsed(n - s.last_update_ts.v)
             reset == s.last_reset_date # Some(IsoDate(t))
             base == IF reset THEN 0 ELSE s.total_hours
         IN  [ total_hours     |-> IF IsActive(raw) THEN base + elapsed ELSE base,
               last_update_ts  |-> Some(n),
               last_reset_date |-> IF reset THEN Some(IsoDate(t)) ELSE s.last_reset_date,
               attr_last_reset |-> IF reset THEN Some(MidnightOf(t)) ELSE s.attr_last_reset ]

---------------------------------------------------------------------------
(* PentairCumulativeRuntimeSensor: the Counter-Delta Tracker. *)

\* __init__ read on day t
CumulativeRuntimeInit(t) ==
    [ total_seconds    |-> 0,
      last_raw_seconds |-> None,
      last_reset_date  |-> Some(IsoDate(t)),
      attr_last_reset  |-> Some(MidnightOf(t)) ]

\* CumulativeRuntimeAdded restoring whatever the persisted reset date is.
CumulativeRuntimeAddedAnyDate(s, last, t) ==
    [ s EXCEPT
        !.total_seconds =
            IF HasRestorableValue(last)
            THEN RestoredValue(last) * HoursRoundUnit ELSE @,
        !.last_raw_seconds = None ]

\* async_added_to_hass on day t: restored hours * 3600
CumulativeRuntimeAdded(s, last, t) ==
    LET restore ==
            /\ HasRestorableValue(last)
            /\ RestoredResetDate(last) = Some(IsoDate(t))
    IN  [ s EXCEPT
            !.total_seconds =
                IF restore THEN RestoredValue(last) * HoursRoundUnit ELSE @,
            !.last_raw_seconds = None ]

\* CumulativeRuntimeUpdate without the `return` of the midnight reset: the
\* growth of the counter since the old day's last reading lands in the new day.
CumulativeRuntimeUpdateAddsAfterReset(s, t, raw) ==
    LET current_seconds == ParseInt(raw)
        reset == s.last_reset_date # Some(IsoDate(t))
        base == IF reset THEN 0 ELSE s.total_seconds
    IN  IF current_seconds = None THEN s
        ELSE [ total_seconds    |->
                   IF s.last_raw_seconds = None THEN base
                   ELSE base + CounterDelta(current_seconds.v, s.last_raw_seconds.v),
               last_raw_seconds |-> current_seconds,
               last_reset_date  |-> Some(IsoDate(t)),
               attr_last_reset  |-> Some(MidnightOf(t)) ]

\* CumulativeRuntimeUpdate without the baseline test: a missing baseline
\* counts as 0, so the first reading is added whole.
CumulativeRuntimeUpdateFromZero(s, t, raw) ==
    LET current_seconds == ParseInt(raw)
        last == IF s.last_raw_seconds = None THEN 0 ELSE s.last_raw_seconds.v
    IN  IF current_seconds = None THEN s
        ELSE IF s.last_reset_date # Some(IsoDate(t))
        THEN [ total_seconds    |-> 0,
               last_raw_seconds |-> current_seconds,
               last_reset_date  |-> Some(IsoDate(t)),
               attr_last_reset  |-> Some(MidnightOf(t)) ]
        ELSE [ s EXCEPT
                 !.total_seconds = @ + CounterDelta(current_seconds.v, last),
                 !.last_raw_seconds = current_seconds ]

\* CumulativeRuntimeUpdate with the midnight reset done before the raw field
\* is read: an absent counter on a new day still zeroes the total.
CumulativeRuntimeUpdateResetsFirst(s, t, raw) ==
    LET current_seconds == ParseInt(raw)
        reset == s.last_reset_date # Some(IsoDate(t))
        r == IF reset
             THEN [ total_seconds    |-> 0,
                    last_raw_seconds |-> None,
                    last_reset_date  |-> Some(IsoDate(t)),
                    attr_last_reset  |-> Some(MidnightOf(t)) ]
             ELSE s
    IN  IF current_seconds = None THEN r
        ELSE IF reset \/ r.last_raw_seconds = None
        THEN [r EXCEPT !.last_raw_seconds = current_seconds]
        ELSE [ r EXCEPT
                 !.total_seconds =
                     @ + CounterDelta(current_seconds.v, r.last_raw_seconds.v),
                 !.last_raw_seconds = current_seconds ]

\* CumulativeRuntimeUpdate whose new-day reset moves the stored reset date
\* and leaves the exposed last_reset where it was.
CumulativeRuntimeUpdateKeepsAttr(s, t, raw) ==
    LET current_seconds == ParseInt(raw)
    IN  IF current_seconds = None THEN s
        ELSE IF s.last_reset_date # Some(IsoDate(t))
        THEN [ total_seconds    |-> 0,
               last_raw_seconds |-> current_seconds,
               last_reset_date  |-> Some(IsoDate(t)),
               attr_last_reset  |-> s.attr_last_reset ]
        ELSE IF s.last_raw_seconds = None
        THEN [s EXCEPT !.last_raw_seconds = current_seconds]
        ELSE [ s EXCEPT
                 !.total_seconds =
                     @ + CounterDelta(current_seconds.v, s.last_raw_seconds.v),
                 !.last_raw_seconds = current_seconds ]

\* CumulativeRuntimeUpdate that measures every reading from the first
\* baseline: the baseline is not moved after a delta was added.
CumulativeRuntimeUpdateKeepsBaseline(s, t, raw) ==
    LET current_seconds == ParseInt(raw)
    IN  IF current_seconds = None THEN s
        ELSE IF s.last_reset_date # Some(IsoDate(t))
        THEN [ total_seconds    |-> 0,
               last_raw_seconds |-> current_seconds,
               last_reset_date  |-> Some(IsoDate(t)),
               attr_last_reset  |-> Some(MidnightOf(t)) ]
        ELSE IF s.last_raw_seconds = None
        THEN [s EXCEPT !.last_raw_seconds = current_seconds]
        ELSE [ s EXCEPT
                 !.total_seconds =
                     @ + CounterDelta(current_seconds.v, s.last_raw_seconds.v) ]

\* update() reading date.today() = t and the counter field = raw
CumulativeRuntimeUpdate(s, t, raw) ==
    LET current_seconds == ParseInt(raw)
    IN  IF current_seconds = None THEN s
        ELSE IF s.last_reset_date # Some(IsoDate(t))
        THEN [ total_seconds    |-> 0,
               last_raw_seconds |-> current_seconds,
               last_reset_date  |-> Some(IsoDate(t)),
               attr_last_reset  |-> Some(MidnightOf(t)) ]
        ELSE IF s.last_raw_seconds = None
        THEN [s EXCEPT !.last_raw_seconds = current_seconds]
        ELSE [ s EXCEPT
                 !.total_seconds =
                     @ + CounterDelta(current_seconds.v, s.last_raw_seconds.v),
                 !.last_raw_seconds = current_seconds ]

---------------------------------------------------------------------------
(* Inputs of the operations. *)

\* Seconds the monotonic clock advances between two readings (130 > 120)
TimeSteps == {0, 50, 130}

\* Days the calendar advances between two readings
DaySteps == {0, 1}

\* s26, tenths of a gallon per minute
FlowRaws == {RawAbsent, RawText, RawInt(-10), RawInt(0), RawInt(25)}

\* the field watched by the daily runtime sensor (s19)
ActivityRaws == {RawAbsent, RawText, RawInt(-5), RawInt(0), RawInt(800)}

\* the runtime counters (s36, s21, s22), in seconds
CounterRaws ==
    {RawAbsent, RawText} \cup {RawInt(c) : c \in {0, 50, 100, 150, 225, 300}}

\* the last_reset state attribute a sensor exposes: the isoformat of
\* _attr_last_reset, absent when the sensor sets none
LastResetAttribute(s) ==
    IF s.attr_last_reset = None THEN AttrAbsent
    ELSE DatetimeIsoformat(s.attr_last_reset.v)

\* What the restore store may answer after a run that last exposed native
\* value nv with last_reset attribute attr: nothing, a state without value,
\* or the value (possibly unreadable) with the attribute (possibly lost or
\* garbled).
RestoreAnswers(nv, attr) ==
    {NoLastData, LastData(ValueNone, attr)}
    \cup { LastData(v, a) : v \in {ValueNum(nv), ValueText},
                            a \in {attr, AttrAbsent, GarbledAttr} }

---------------------------------------------------------------------------
(* PentairCloudSwitch: one program switch, the timers it has in the event  *)
(* loop and its commands that await the hub call.  A timer is the record   *)
(* [cmd, delay, due]: the command that scheduled it, its delay and the     *)
(* loop time it is due at; the cancel handle of a timer is the timer.      *)

SeqRange(s) == {s[i] : i \in 1..Len(s)}

\* delays, as _schedule_refreshes builds the list: range(5, 61, 5), then
\* range(75, 181, 15), then range(210, 301, 30)
RefreshDelays ==
    [i \in 1..12 |-> 5 * i]
    \o [i \in 1..8 |-> 75 + 15 * (i - 1)]
    \o [i \in 1..4 |-> 210 + 30 * (i - 1)]

\* what the last operation on the switch was and what it found
SwitchEvent(sw, op, cmd) ==
    [ op |-> op, cmd |-> cmd, timers |-> sw.timers,
      handles |-> sw.scheduled_refreshes, state |-> sw.state,
      running |-> sw.running, read |-> sw.read ]

\* __init__, the hub holding `running` for the program
SwitchInit(running) ==
    [ state               |-> running,   \* self._state
      scheduled_refreshes |-> <<>>,      \* self._scheduled_refreshes
      running             |-> running,   \* self.pentair_program.running
      timers              |-> {},        \* the loop's pending call_later timers
      clock               |-> 0,         \* the loop's time, in seconds
      calls               |-> {},        \* commands awaiting the executor job
      issued              |-> 0,         \* commands started so far
      removed             |-> FALSE,     \* async_will_remove_from_hass has run
      fired               |-> <<>>,      \* the timers that fired since the
                                         \* last _schedule_refreshes, in order
      scheduled           |-> [cmd |-> 0, at |-> 0],
                                         \* the last _schedule_refreshes: the
                                         \* command that called it, and when
      read                |-> None,      \* what is_on returned last
      ev                  |-> [ op |-> "init", cmd |-> 0, timers |-> {},
                                handles |-> <<>>, state |-> running,
                                running |-> running, read |-> None ] ]

\* for cancel in self._scheduled_refreshes: cancel(); then clear()
CancelRefreshes(sw) ==
    [ sw EXCEPT !.timers = @ \ SeqRange(sw.scheduled_refreshes),
                !.scheduled_refreshes = <<>> ]

\* _schedule_refreshes that appends to the handles it finds: nothing is
\* cancelled first.
ScheduleRefreshesKeepsOld(sw, cmd) ==
    LET new == [ i \in 1..Len(RefreshDelays) |->
                   [ cmd |-> cmd, delay |-> RefreshDelays[i],
                     due |-> sw.clock + RefreshDelays[i] ] ]
    IN  [ sw EXCEPT !.timers = @ \cup SeqRange(new),
                    !.scheduled_refreshes = @ \o new,
                    !.fired = <<>>,
                    !.scheduled = [cmd |-> cmd, at |-> sw.clock] ]

\* _schedule_refreshes that leaves out the last range, 210..300.
ScheduleRefreshesShort(sw, cmd) ==
    LET c == CancelRefreshes(sw)
        new == [ i \in 1..20 |->
                   [ cmd |-> cmd, delay |-> RefreshDelays[i],
                     due |-> sw.clock + RefreshDelays[i] ] ]
    IN  [ c EXCEPT !.timers = @ \cup SeqRange(new),
                   !.scheduled_refreshes = new,
                   !.fired = <<>>,
                   !.scheduled = [cmd |-> cmd, at |-> sw.clock] ]

\* _schedule_refreshes, called by command cmd at loop time sw.clock
ScheduleRefreshes(sw, cmd) ==
    LET c == CancelRefreshes(sw)
        new == [ i \in 1..Len(RefreshDelays) |->
                   [ cmd |-> cmd, delay |-> RefreshDelays[i],
                     due |-> sw.clock + RefreshDelays[i] ] ]
    IN  [ c EXCEPT !.timers = @ \cup SeqRange(new),
                   !.scheduled_refreshes = new,
                   !.fired = <<>>,
                   !.scheduled = [cmd |-> cmd, at |-> sw.clock] ]

\* is_on that returns self._state as it finds it.
SwitchIsOnCached(sw) ==
    [ sw EXCEPT !.read = Some(sw.state),
                !.ev = SwitchEvent(sw, "is_on", 0) ]

\* is_on: self._state = self.pentair_program.running; return self._state
SwitchIsOn(sw) ==
    [ sw EXCEPT !.state = sw.running,
                !.read = Some(sw.running),
                !.ev = SwitchEvent(sw, "is_on", 0) ]

\* update(): hub.update_pentair_devices_status() left the program running
\* or not; self._state = self.pentair_program.running
SwitchUpdate(sw, running) ==
    [ sw EXCEPT !.running = running,
                !.state = running,
                !.ev = SwitchEvent(sw, "update", 0) ]

\* async_turn_on (on) / async_turn_off (~on) up to the await of the
\* executor job
TurnStart(sw, on) ==
    [ sw EXCEPT !.state = on,
                !.issued = @ + 1,
                !.calls = @ \cup {[cmd |-> sw.issued + 1, on |-> on]},
                !.ev = SwitchEvent(sw, "command", sw.issued + 1) ]

\* the executor job of a command returned: hub.notify_action() and
\* self._schedule_refreshes()
TurnReturns(sw, call) ==
    [ ScheduleRefreshes(sw, call.cmd) EXCEPT
        !.calls = @ \ {call},
        !.ev = SwitchEvent(sw, "returned", call.cmd) ]

\* the executor job raised: the coroutine ends at the await
TurnRaises(sw, call) ==
    [ sw EXCEPT !.calls = @ \ {call},
                !.ev = SwitchEvent(sw, "raised", call.cmd) ]

\* async_will_remove_from_hass
WillRemove(sw) ==
    [ CancelRefreshes(sw) EXCEPT
        !.removed = TRUE,
        !.ev = SwitchEvent(sw, "remove", 0) ]

\* the loop runs timer t: _refresh, that is async_update_ha_state with
\* force_refresh, which calls update() and reads is_on while the entity is
\* in hass
RefreshFires(sw, t, running) ==
    LET s == [ sw EXCEPT !.timers = @ \ {t},
                         !.fired = Append(@, [ cmd |-> t.cmd, delay |-> t.delay,
                                               at |-> sw.clock ]) ]
    IN  IF sw.removed
        THEN [ s EXCEPT !.ev = SwitchEvent(sw, "fired", t.cmd) ]
        ELSE [ SwitchIsOn(SwitchUpdate(s, running)) EXCEPT
                 !.ev = SwitchEvent(sw, "fired", t.cmd) ]

---------------------------------------------------------------------------
(* The state machine. *)

NoEntity == <<"", "">>

Event(op, e, raw, last, pre) ==
    [op |-> op, e |-> e, raw |-> raw, last |-> last, pre |-> pre, was_today |-> today]

\* _write_daily_gallons without the test of self._daily
WriteDailyGallonsAnySensor(e, total) ==
    IF e \in added
    THEN [daily_gallons EXCEPT ![e[1]] = Some(total)]
    ELSE daily_gallons

\* _write_daily_gallons: only the daily sensor, once added to hass, publishes
\* its total under its own device id.
WriteDailyGallons(e, total) ==
    IF Daily(e) /\ e \in added
    THEN [daily_gallons EXCEPT ![e[1]] = Some(total)]
    ELSE daily_gallons

\* async_setup_entry on day 0 of a fresh installation: every entity is
\* constructed, the entities in `entities` are added to hass with an empty
\* restore store.
Setup(entities) ==
    /\ now = 0
    /\ today = 0
    /\ added = entities
    /\ gallons = [e \in GallonsEntities |->
                    IF e \in entities
                    THEN GallonsAdded(GallonsInit(Daily(e), 0), Daily(e), NoLastData, 0)
                    ELSE GallonsInit(Daily(e), 0)]
    /\ daily_runtime = [e \in DailyRuntimeEntities |->
                    IF e \in entities
                    THEN DailyRuntimeAdded(DailyRuntimeInit(0), NoLastData, 0)
                    ELSE DailyRuntimeInit(0)]
    /\ cumulative_runtime = [e \in CumulativeRuntimeEntities |->
                    IF e \in entities
                    THEN CumulativeRuntimeAdded(CumulativeRuntimeInit(0), NoLastData, 0)
                    ELSE CumulativeRuntimeInit(0)]
    /\ daily_gallons = [d \in Devices |->
                    IF <<d, "daily_gallons">> \in entities THEN Some(0) ELSE None]
    /\ ev = [op |-> "setup", e |-> NoEntity, raw |-> RawAbsent,
             last |-> NoLastData, pre |-> None, was_today |-> 0]

\* PentairCumulativeGallonsSensor.update
UpdateGallons(e, dt, dd, raw) ==
    /\ e \in added
    /\ now + dt <= MaxNow
    /\ today + dd <= MaxDay
    /\ now' = now + dt
    /\ today' = today + dd
    /\ LET r == GallonsUpdate(gallons[e], Daily(e), now', today', raw)
       IN  /\ gallons' = [gallons EXCEPT ![e] = r.sensor]
           /\ daily_gallons' =
                 IF r.write THEN WriteDailyGallons(e, r.sensor.total_gallons)
                 ELSE daily_gallons
    /\ ev' = Event("update", e, raw, NoLastData, gallons[e])
    /\ UNCHANGED <<added, daily_runtime, cumulative_runtime>>

\* PentairDailyRuntimeSensor.update
UpdateDailyRuntime(e, dt, dd, raw) ==
    /\ e \in added
    /\ now + dt <= MaxNow
    /\ today + dd <= MaxDay
    /\ now' = now + dt
    /\ today' = today + dd
    /\ daily_runtime' =
          [daily_runtime EXCEPT ![e] = DailyRuntimeUpdate(@, now', today', raw)]
    /\ ev' = Event("update", e, raw, NoLastData, daily_runtime[e])
    /\ UNCHANGED <<added, gallons, cumulative_runtime, daily_gallons>>

\* PentairCumulativeRuntimeSensor.update (reads no monotonic clock)
UpdateCumulativeRuntime(e, dd, raw) ==
    /\ e \in added
    /\ today + dd <= MaxDay
    /\ today' = today + dd
    /\ LET s == CumulativeRuntimeUpdate(cumulative_runtime[e], today', raw)
       IN  /\ s.total_seconds <= MaxTotalSeconds
           /\ cumulative_runtime' = [cumulative_runtime EXCEPT ![e] = s]
    /\ ev' = Event("update", e, raw, NoLastData, cumulative_runtime[e])
    /\ UNCHANGED <<now, added, gallons, daily_runtime, daily_gallons>>

\* Restart of a gallons sensor: the run ends having exposed native_value and
\* last_reset, and dd days later a new object is constructed (__init__) and
\* added (async_added_to_hass) with the restore store's answer.
RestartGallons(e, dd, last) ==
    /\ e \in added
    /\ today + dd <= MaxDay
    /\ today' = today + dd
    /\ LET s == GallonsAdded(GallonsInit(Daily(e), today'), Daily(e), last, today')
       IN  /\ gallons' = [gallons EXCEPT ![e] = s]
           /\ daily_gallons' = WriteDailyGallons(e, s.total_gallons)
    /\ ev' = Event("restart", e, RawAbsent, last, gallons[e])
    /\ UNCHANGED <<now, added, daily_runtime, cumulative_runtime>>

\* Restart of a daily runtime sensor
RestartDailyRuntime(e, dd, last) ==
    /\ e \in added
    /\ today + dd <= MaxDay
    /\ today' = today + dd
    /\ daily_runtime' =
          [daily_runtime EXCEPT
              ![e] = DailyRuntimeAdded(DailyRuntimeInit(today'), last, today')]
    /\ ev' = Event("restart", e, RawAbsent, last, daily_runtime[e])
    /\ UNCHANGED <<now, added, gallons, cumulative_runtime, daily_gallons>>

\* Restart of a cumulative runtime sensor
RestartCumulativeRuntime(e, dd, last) ==
    /\ e \in added
    /\ today + dd <= MaxDay
    /\ today' = today + dd
    /\ cumulative_runtime' =
          [cumulative_runtime EXCEPT
              ![e] = CumulativeRuntimeAdded(CumulativeRuntimeInit(today'), last, today')]
    /\ ev' = Event("restart", e, RawAbsent, last, cumulative_runtime[e])
    /\ UNCHANGED <<now, added, gallons, daily_runtime, daily_gallons>>

\* The keys of config_entry.options: pool_size_<device id> and
\* target_turnovers_<device id>
OptionKeys == {"pool_size", "target_turnovers"} \X Devices

\* options.get(key, default) finds no key
NoOptions == [k \in OptionKeys |-> None]

\* No ticks are recorded
NoRun == [start |-> 0, day |-> 0, ticks |-> <<>>]

\* No options flow was started
NoFlow ==
    [ result |-> "none", devices |-> <<>>, device_index |-> 0,
      options |-> NoOptions, before |-> NoOptions,
      shown |-> <<>>, submitted |-> <<>> ]

Next ==
    \/ /\ \E e \in GallonsEntities, dt \in TimeSteps, dd \in DaySteps,
             raw \in FlowRaws :
             UpdateGallons(e, dt, dd, raw)
       /\ UNCHANGED <<options, hist, switch, options_flow>>
    \/ /\ \E e \in DailyRuntimeEntities, dt \in TimeSteps, dd \in DaySteps,
             raw \in ActivityRaws :
             UpdateDailyRuntime(e, dt, dd, raw)
       /\ UNCHANGED <<options, hist, switch, options_flow>>
    \/ /\ \E e \in CumulativeRuntimeEntities, dd \in DaySteps, raw \in CounterRaws :
             UpdateCumulativeRuntime(e, dd, raw)
       /\ UNCHANGED <<options, hist, switch, options_flow>>
    \/ /\ \E e \in GallonsEntities, dd \in DaySteps :
             \E last \in RestoreAnswers(GallonsNativeValue(gallons[e]),
                                        LastResetAttribute(gallons[e])) :
                RestartGallons(e, dd, last)
       /\ UNCHANGED <<options, hist, switch, options_flow>>
    \/ /\ \E e \in DailyRuntimeEntities, dd \in DaySteps :
             \E last \in RestoreAnswers(DailyRuntimeNativeValue(daily_runtime[e]),
                                        LastResetAttribute(daily_runtime[e])) :
                RestartDailyRuntime(e, dd, last)
       /\ UNCHANGED <<options, hist, switch, options_flow>>
    \/ /\ \E e \in CumulativeRuntimeEntities, dd \in DaySteps :
             \E last \in RestoreAnswers(CumulativeRuntimeNativeValue(cumulative_runtime[e]),
                                        LastResetAttribute(cumulative_runtime[e])) :
                RestartCumulativeRuntime(e, dd, last)
       /\ UNCHANGED <<options, hist, switch, options_flow>>

\* One accumulator of each kind, observed alone: the entity registry has one
\* entity of the device enabled.
WatchedEntities ==
    {<<"d1", "total_gallons">>, <<"d1", "daily_gallons">>,
     <<"d1", "daily_runtime">>, <<"d1", "motor_run_time">>}

Init ==
    /\ \E e \in WatchedEntities : Setup({e})
    /\ options = NoOptions
    /\ hist = NoRun
    /\ switch = SwitchInit(FALSE)
    /\ options_flow = NoFlow

Spec == Init /\ [][Next]_vars

---------------------------------------------------------------------------
(* Runs of ticks: one runtime tracker from its creation (setup or         *)
(* restart) on, with the ticks it got recorded in hist.                    *)

\* Seconds between two ticks of a recorded run (60: the polling example)
RunTimeSteps == {50, 60, 130}

\* Field values of the ticks of a recorded run
RunActivityRaws == {RawAbsent, RawInt(0), RawInt(800)}

\* Counter readings of the ticks of a recorded run
RunCounterRaws == {RawAbsent} \cup {RawInt(c) : c \in {50, 100, 150, 225}}

\* A run starts when the tracker is created with a total and a day
RunStart(total) == [start |-> total, day |-> today', ticks |-> <<>>]

\* A tick joins the record with the clock, the date and the field it read
RunTick(raw) ==
    [hist EXCEPT !.ticks = Append(@, [now |-> now', today |-> today', raw |-> raw])]

RunUpdateDailyRuntime(e, dt, dd, raw) ==
    /\ Len(hist.ticks) < MaxRun
    /\ UpdateDailyRuntime(e, dt, dd, raw)
    /\ hist' = RunTick(raw)
    /\ UNCHANGED <<options, switch, options_flow>>

RunUpdateCumulativeRuntime(e, dd, raw) ==
    /\ Len(hist.ticks) < MaxRun
    /\ UpdateCumulativeRuntime(e, dd, raw)
    /\ hist' = RunTick(raw)
    /\ UNCHANGED <<options, switch, options_flow>>

RunRestartDailyRuntime(e, dd, last) ==
    /\ RestartDailyRuntime(e, dd, last)
    /\ hist' = RunStart(daily_runtime'[e].total_hours)
    /\ UNCHANGED <<options, switch, options_flow>>

RunRestartCumulativeRuntime(e, dd, last) ==
    /\ RestartCumulativeRuntime(e, dd, last)
    /\ hist' = RunStart(cumulative_runtime'[e].total_seconds)
    /\ UNCHANGED <<options, switch, options_flow>>

NextRuns ==
    \/ \E e \in DailyRuntimeEntities, dt \in RunTimeSteps, dd \in DaySteps,
          raw \in RunActivityRaws :
          RunUpdateDailyRuntime(e, dt, dd, raw)
    \/ \E e \in CumulativeRuntimeEntities, dd \in DaySteps, raw \in RunCounterRaws :
          RunUpdateCumulativeRuntime(e, dd, raw)
    \/ \E e \in DailyRuntimeEntities, dd \in DaySteps :
          \E last \in RestoreAnswers(DailyRuntimeNativeValue(daily_runtime[e]),
                                     LastResetAttribute(daily_runtime[e])) :
             RunRestartDailyRuntime(e, dd, last)
    \/ \E e \in CumulativeRuntimeEntities, dd \in DaySteps :
          \E last \in RestoreAnswers(CumulativeRuntimeNativeValue(cumulative_runtime[e]),
                                     LastResetAttribute(cumulative_runtime[e])) :
             RunRestartCumulativeRuntime(e, dd, last)

RunEntities == {<<"d1", "daily_runtime">>, <<"d1", "motor_run_time">>}

InitRuns ==
    /\ \E e \in RunEntities : Setup({e})
    /\ options = NoOptions
    /\ hist = NoRun
    /\ switch = SwitchInit(FALSE)
    /\ options_flow = NoFlow

SpecRuns == InitRuns /\ [][NextRuns]_vars

---------------------------------------------------------------------------
(* PentairPoolTurnoverSensor: the Turnover Ratio Calculator, read while    *)
(* the daily gallons sensor of device d1 integrates and with the pool      *)
(* sizes of both devices as the options hold them.                         *)

\* native_value without the factor 100: a fraction, not a percentage
TurnoverNativeValueAsFraction(d) ==
    LET published == daily_gallons[d]
        configured == options[<<"pool_size", d>>]
        pool_size == IF configured = None THEN DEFAULT_POOL_SIZE ELSE configured.v
    IN  IF pool_size <= 0 THEN None
        ELSE Some([ num |-> IF published = None THEN 0 ELSE published.v,
                    den |-> pool_size * 600 ])

\* native_value of the sensor of device d, with the config entry loaded:
\* None, or the float (daily_gallons / pool_size) * 100 as the exact
\* fraction num/den (daily_gallons is held in 1/600 gallon)
TurnoverNativeValue(d) ==
    LET published == daily_gallons[d]
        daily == IF published = None THEN 0 ELSE published.v
        configured == options[<<"pool_size", d>>]
        pool_size == IF configured = None THEN DEFAULT_POOL_SIZE ELSE configured.v
    IN  IF pool_size <= 0 THEN None
        ELSE Some([num |-> daily * 100, den |-> pool_size * 600])

\* What options may hold under pool_size_<device id>: nothing, or a number
PoolSizeOptions == {None, Some(-5), Some(0), Some(100), Some(30000)}

InitTurnover ==
    /\ Setup({<<"d1", "daily_gallons">>})
    /\ \E p1, p2 \in PoolSizeOptions :
          options = [NoOptions EXCEPT ![<<"pool_size", "d1">>] = p1,
                                      ![<<"pool_size", "d2">>] = p2]
    /\ hist = NoRun
    /\ switch = SwitchInit(FALSE)
    /\ options_flow = NoFlow

NextTurnover ==
    /\ \E e \in GallonsEntities, dt \in TimeSteps, dd \in DaySteps,
          raw \in FlowRaws :
          UpdateGallons(e, dt, dd, raw)
    /\ UNCHANGED <<options, hist, switch, options_flow>>

SpecTurnover == InitTurnover /\ [][NextTurnover]_vars

---------------------------------------------------------------------------
(* The program switch: commands, the hub's answers, teardown, the event    *)
(* loop's clock and the timers it runs when they are due.                  *)

SensorsUnchanged ==
    UNCHANGED <<now, today, added, gallons, daily_runtime, cumulative_runtime,
                daily_gallons, ev, options, hist, options_flow>>

\* the earliest due time among the pending timers
NextDue ==
    CHOOSE d \in {t.due : t \in switch.timers} :
       \A t \in switch.timers : d <= t.due

\* hass reads the is_on property
ReadIsOn ==
    /\ ~switch.removed
    /\ switch' = SwitchIsOn(switch)
    /\ SensorsUnchanged

\* hass polls update(); the hub's status has the program running or not
UpdateSwitch(running) ==
    /\ ~switch.removed
    /\ switch' = SwitchUpdate(switch, running)
    /\ SensorsUnchanged

\* the switch.turn_on / switch.turn_off service reaches the entity
TurnCommand(on) ==
    /\ ~switch.removed
    /\ switch.issued < MaxCommands
    /\ switch' = TurnStart(switch, on)
    /\ SensorsUnchanged

\* hub.start_program / hub.stop_program returned in the executor
HubCallReturns(call) ==
    /\ call \in switch.calls
    /\ switch' = TurnReturns(switch, call)
    /\ SensorsUnchanged

\* hub.start_program / hub.stop_program raised in the executor
HubCallRaises(call) ==
    /\ call \in switch.calls
    /\ switch' = TurnRaises(switch, call)
    /\ SensorsUnchanged

\* the entity is removed from hass
RemoveSwitch ==
    /\ ~switch.removed
    /\ switch' = WillRemove(switch)
    /\ SensorsUnchanged

\* the loop runs a timer that is due
TimerFires(t, running) ==
    /\ t \in switch.timers
    /\ t.due <= switch.clock
    /\ switch' = RefreshFires(switch, t, running)
    /\ SensorsUnchanged

\* time passes up to the next due timer (the loop sleeps until then)
ClockAdvances ==
    /\ switch.timers # {}
    /\ \A t \in switch.timers : t.due > switch.clock
    /\ NextDue <= MaxClock
    /\ switch' = [switch EXCEPT !.clock = NextDue]
    /\ SensorsUnchanged

SwitchCalls == [cmd : 1..MaxCommands, on : BOOLEAN]

\* Commands, teardown and timers, without hass reading or polling the
\* entity in between
NextSwitch ==
    \/ \E on \in BOOLEAN : TurnCommand(on)
    \/ \E call \in SwitchCalls : HubCallReturns(call)
    \/ \E call \in SwitchCalls : HubCallRaises(call)
    \/ RemoveSwitch
    \/ \E t \in switch.timers, running \in BOOLEAN : TimerFires(t, running)
    \/ ClockAdvances

\* Commands and timers of a switch that stays in hass, with hass reading
\* is_on and polling update() in between
NextSwitchState ==
    \/ ReadIsOn
    \/ \E running \in BOOLEAN : UpdateSwitch(running)
    \/ \E on \in BOOLEAN : TurnCommand(on)
    \/ \E call \in SwitchCalls : HubCallReturns(call)
    \/ \E call \in SwitchCalls : HubCallRaises(call)
    \/ \E t \in switch.timers, running \in BOOLEAN : TimerFires(t, running)
    \/ ClockAdvances

InitSwitch ==
    /\ Setup({})
    /\ options = NoOptions
    /\ hist = NoRun
    /\ \E running \in BOOLEAN : switch = SwitchInit(running)
    /\ options_flow = NoFlow

SpecSwitch == InitSwitch /\ [][NextSwitch]_vars

SpecSwitchState == InitSwitch /\ [][NextSwitchState]_vars

---------------------------------------------------------------------------
(* OptionsFlowHandler: the options flow of the config entry.  pool_size is *)
(* an integer number of gallons; target_turnovers is a float with one      *)
(* decimal, held in tenths (1.0 is 10).  options_flow keeps, next to the   *)
(* handler's fields, the options it was constructed with (before), the     *)
(* devices whose form it showed (shown) and the inputs it got (submitted). *)

\* vol.All(vol.Coerce(int), vol.Range(min=100, max=1000000))
AcceptedPoolSize(x) == x >= 100 /\ x <= 1000000

\* vol.All(vol.Coerce(float), vol.Range(min=0.1, max=10.0)), in tenths
AcceptedTargetTurnovers(t) == t >= 1 /\ t <= 100

\* OptionsFlowHandler.__init__: self._options = dict(config_entry.options)
FlowHandlerInit(opts) ==
    [ result |-> "none", devices |-> <<>>, device_index |-> 0,
      options |-> opts, before |-> opts, shown |-> <<>>, submitted |-> <<>> ]

\* async_show_form(step_id="device", ...) for self._devices[self._device_index]
ShowDeviceForm(f) ==
    [f EXCEPT !.result = "form",
              !.shown = Append(@, f.devices[f.device_index + 1])]

\* async_step_device that creates the entry after the first input
FlowStepDeviceFinishesEarly(f, user_input) ==
    LET device_id == f.devices[f.device_index + 1]
    IN  IF user_input # None
        THEN [f EXCEPT
                !.options = [@ EXCEPT
                    ![<<"pool_size", device_id>>] = Some(user_input.v.pool_size),
                    ![<<"target_turnovers", device_id>>] =
                        Some(user_input.v.target_turnovers)],
                !.device_index = @ + 1,
                !.submitted = Append(@, [device |-> device_id, input |-> user_input.v]),
                !.result = "create_entry"]
        ELSE ShowDeviceForm(f)

\* OptionsFlowHandler.async_step_device: with an input, store it under the
\* current device's keys and go on to the next device or create the entry;
\* without one, show the current device's form
FlowStepDevice(f, user_input) ==
    LET device_id == f.devices[f.device_index + 1]
    IN  IF user_input # None
        THEN LET g == [f EXCEPT
                        !.options = [@ EXCEPT
                            ![<<"pool_size", device_id>>] =
                                Some(user_input.v.pool_size),
                            ![<<"target_turnovers", device_id>>] =
                                Some(user_input.v.target_turnovers)],
                        !.device_index = @ + 1,
                        !.submitted =
                            Append(@, [device |-> device_id, input |-> user_input.v])]
             IN  IF g.device_index < Len(g.devices)
                 THEN ShowDeviceForm(g)
                 ELSE [g EXCEPT !.result = "create_entry"]
        ELSE ShowDeviceForm(f)

\* OptionsFlowHandler.async_step_init with the devices the hub returned
FlowStepInit(f, devs) ==
    LET g == [f EXCEPT !.devices = devs]
    IN  IF Len(devs) = 0
        THEN [g EXCEPT !.result = "abort"]
        ELSE FlowStepDevice([g EXCEPT !.device_index = 0], None)

\* hub.get_devices(): the discovered devices, in discovery order
DeviceLists == {<<>>, <<"d1">>, <<"d2">>, <<"d1", "d2">>, <<"d2", "d1">>}

\* What the user may type into the device form
TypedInputs == [pool_size : {50, 100, 1000000}, target_turnovers : {0, 1, 100}]

\* The inputs that reach async_step_device: those the form's schema accepts
DeviceInputs ==
    { i \in TypedInputs :
        AcceptedPoolSize(i.pool_size) /\ AcceptedTargetTurnovers(i.target_turnovers) }

\* Options an earlier flow may have left under a device's keys
StoredPoolSizes == {None, Some(100), Some(1000000)}
StoredTargetTurnovers == {None, Some(1), Some(100)}

\* The options flow has no part in the sensors and the switch
FlowFrame ==
    UNCHANGED <<now, today, added, gallons, daily_runtime, cumulative_runtime,
                daily_gallons, ev, hist, switch>>

\* The user opens the options flow: the handler is constructed from the
\* entry's options and its init step runs
StartOptionsFlow(devs) ==
    /\ options_flow.result # "form"
    /\ options_flow' = FlowStepInit(FlowHandlerInit(options), devs)
    /\ UNCHANGED options
    /\ FlowFrame

\* The user submits the form of the current device; the result
\* create_entry makes the flow's data the entry's options
SubmitDeviceForm(input) ==
    /\ options_flow.result = "form"
    /\ options_flow' = FlowStepDevice(options_flow, Some(input))
    /\ options' = IF options_flow'.result = "create_entry"
                  THEN options_flow'.options
                  ELSE options
    /\ FlowFrame

NextFlow ==
    \/ \E devs \in DeviceLists : StartOptionsFlow(devs)
    \/ \E input \in DeviceInputs : SubmitDeviceForm(input)

InitFlow ==
    /\ Setup({})
    /\ \E p \in StoredPoolSizes, t \in StoredTargetTurnovers :
          options = [NoOptions EXCEPT ![<<"pool_size", "d2">>] = p,
                                      ![<<"target_turnovers", "d2">>] = t]
    /\ hist = NoRun
    /\ switch = SwitchInit(FALSE)
    /\ options_flow = NoFlow

SpecFlow == InitFlow /\ [][NextFlow]_vars

---------------------------------------------------------------------------
(* PentairTurnoverTargetBinarySensor: the target-met indicator, read while *)
(* the daily gallons sensor of device d1 integrates, with the pool size    *)
(* and the target turnovers the options hold for each device.              *)

\* _get_values that reads no target_turnovers option: always the default
GetValuesDefaultTarget(d) ==
    LET published == daily_gallons[d]
        pool == options[<<"pool_size", d>>]
    IN  [ daily_gallons |-> IF published = None THEN 0 ELSE published.v,
          pool_size |-> IF pool = None THEN DEFAULT_POOL_SIZE ELSE pool.v,
          target_turnovers |-> DEFAULT_TARGET_TURNOVERS ]

\* _get_values of the sensor of device d, with the config entry loaded:
\* daily_gallons in 1/600 gallon (0.0 when nothing is published),
\* pool_size in gallons, target_turnovers in tenths
GetValues(d) ==
    LET published == daily_gallons[d]
        pool == options[<<"pool_size", d>>]
        target == options[<<"target_turnovers", d>>]
    IN  [ daily_gallons |-> IF published = None THEN 0 ELSE published.v,
          pool_size |-> IF pool = None THEN DEFAULT_POOL_SIZE ELSE pool.v,
          target_turnovers |->
             IF target = None THEN DEFAULT_TARGET_TURNOVERS ELSE target.v ]

\* is_on with > in place of >=
TurnoverTargetIsOnStrict(d) ==
    LET v == GetValues(d)
    IN  v.daily_gallons > 60 * (v.pool_size * v.target_turnovers)

\* is_on: daily_gallons >= pool_size * target_turnovers.  In the units held
\* that is daily/600 >= pool_size * target/10, i.e. daily >= 60 * (pool_size
\* * target).
TurnoverTargetIsOn(d) ==
    LET v == GetValues(d)
    IN  v.daily_gallons >= 60 * (v.pool_size * v.target_turnovers)

\* What options may hold under target_turnovers_<device id>: nothing, or a
\* number of tenths
TargetTurnoversOptions == {None, Some(1), Some(100)}

\* What options may hold under pool_size_<device id> while the indicator is
\* read: nothing, a number the options flow accepts, or zero
TargetPoolSizeOptions == {None, Some(0), Some(100), Some(300000)}

InitTarget ==
    /\ Setup({<<"d1", "daily_gallons">>})
    /\ \E p1 \in TargetPoolSizeOptions, t1 \in TargetTurnoversOptions,
          p2 \in {None, Some(0)} :
          options = [NoOptions EXCEPT ![<<"pool_size", "d1">>] = p1,
                                      ![<<"target_turnovers", "d1">>] = t1,
                                      ![<<"pool_size", "d2">>] = p2]
    /\ hist = NoRun
    /\ switch = SwitchInit(FALSE)
    /\ options_flow = NoFlow

NextTarget ==
    /\ \E e \in GallonsEntities, dt \in TimeSteps, dd \in DaySteps,
          raw \in FlowRaws :
          UpdateGallons(e, dt, dd, raw)
    /\ UNCHANGED <<options, hist, switch, options_flow>>

SpecTarget == InitTarget /\ [][NextTarget]_vars

---------------------------------------------------------------------------
(* Several accumulators side by side: both gallons sensors and both        *)
(* runtime trackers of device d1 and the daily gallons sensor of device    *)
(* d2 are added to hass and are ticked and restarted in any order.         *)

JointEntities ==
    {<<"d1", "daily_gallons">>, <<"d1", "total_gallons">>,
     <<"d2", "daily_gallons">>, <<"d1", "daily_runtime">>,
     <<"d1", "motor_run_time">>}

\* Seconds between two readings of the clock
JointTimeSteps == {130}

\* The fields read by the ticks: flow, activity and counter
JointFlowRaws == {RawInt(25)}
JointActivityRaws == {RawInt(800)}
JointCounterRaws == {RawInt(100), RawInt(225)}

\* The runtime trackers are ticked, and every accumulator is restarted, on
\* the day of the last reading; the date moves on in the gallons ticks
JointSameDay == {0}

\* What the restore store answers: what the run last exposed
JointRestoreAnswers(nv, attr) == {LastData(ValueNum(nv), attr)}

\* What the restore store holds for each accumulator when hass starts: the
\* value of an earlier run of the same day, in the units native_value has
JointStoredValues ==
    [e \in JointEntities |->
        CASE e = <<"d1", "daily_gallons">> -> 20
          [] e = <<"d2", "daily_gallons">> -> 10
          [] e = <<"d1", "total_gallons">> -> 500
          [] e = <<"d1", "daily_runtime">> -> 2
          [] e = <<"d1", "motor_run_time">> -> 1]

JointStored(e) ==
    LastData(ValueNum(JointStoredValues[e]),
             IF e = <<"d1", "total_gallons">> THEN AttrAbsent
             ELSE DatetimeIsoformat(MidnightOf(0)))

\* async_setup_entry on day 0 after a restart of hass: the entities of
\* JointEntities are added and restore what the store holds
InitJoint ==
    /\ now = 0
    /\ today = 0
    /\ added = JointEntities
    /\ gallons = [e \in GallonsEntities |->
                    IF e \in JointEntities
                    THEN GallonsAdded(GallonsInit(Daily(e), 0), Daily(e),
                                      JointStored(e), 0)
                    ELSE GallonsInit(Daily(e), 0)]
    /\ daily_runtime = [e \in DailyRuntimeEntities |->
                    IF e \in JointEntities
                    THEN DailyRuntimeAdded(DailyRuntimeInit(0), JointStored(e), 0)
                    ELSE DailyRuntimeInit(0)]
    /\ cumulative_runtime = [e \in CumulativeRuntimeEntities |->
                    IF e \in JointEntities
                    THEN CumulativeRuntimeAdded(CumulativeRuntimeInit(0),
                                                JointStored(e), 0)
                    ELSE CumulativeRuntimeInit(0)]
    /\ daily_gallons = [d \in Devices |->
                    IF <<d, "daily_gallons">> \in JointEntities
                    THEN Some(gallons[<<d, "daily_gallons">>].total_gallons)
                    ELSE None]
    /\ ev = [op |-> "setup", e |-> NoEntity, raw |-> RawAbsent,
             last |-> NoLastData, pre |-> None, was_today |-> 0]
    /\ options = NoOptions
    /\ hist = NoRun
    /\ switch = SwitchInit(FALSE)
    /\ options_flow = NoFlow

NextJoint ==
    \/ /\ \E e \in GallonsEntities, dt \in JointTimeSteps, dd \in DaySteps,
             raw \in JointFlowRaws :
             UpdateGallons(e, dt, dd, raw)
       /\ UNCHANGED <<options, hist, switch, options_flow>>
    \/ /\ \E e \in DailyRuntimeEntities, dt \in JointTimeSteps, dd \in JointSameDay,
             raw \in JointActivityRaws :
             UpdateDailyRuntime(e, dt, dd, raw)
       /\ UNCHANGED <<options, hist, switch, options_flow>>
    \/ /\ \E e \in CumulativeRuntimeEntities, dd \in JointSameDay,
             raw \in JointCounterRaws :
             UpdateCumulativeRuntime(e, dd, raw)
       /\ UNCHANGED <<options, hist, switch, options_flow>>
    \/ /\ \E e \in GallonsEntities, dd \in JointSameDay :
             \E last \in JointRestoreAnswers(GallonsNativeValue(gallons[e]),
                                             LastResetAttribute(gallons[e])) :
                RestartGallons(e, dd, last)
       /\ UNCHANGED <<options, hist, switch, options_flow>>
    \/ /\ \E e \in DailyRuntimeEntities, dd \in JointSameDay :
             \E last \in JointRestoreAnswers(DailyRuntimeNativeValue(daily_runtime[e]),
                                             LastResetAttribute(daily_runtime[e])) :
                RestartDailyRuntime(e, dd, last)
       /\ UNCHANGED <<options, hist, switch, options_flow>>
    \/ /\ \E e \in CumulativeRuntimeEntities, dd \in JointSameDay :
             \E last \in JointRestoreAnswers(
                             CumulativeRuntimeNativeValue(cumulative_runtime[e]),
                             LastResetAttribute(cumulative_runtime[e])) :
                RestartCumulativeRuntime(e, dd, last)
       /\ UNCHANGED <<options, hist, switch, options_flow>>

SpecJoint == InitJoint /\ [][NextJoint]_vars

---------------------------------------------------------------------------
(* Vocabulary of the properties: the last operation (ev), the state it     *)
(* found (ev.pre) and the state it left (Post).                            *)

IsTick == ev.op = "update"
IsRestart == ev.op = "restart"

OnGallons == ev.e \in GallonsEntities
OnDailyRuntime == ev.e \in DailyRuntimeEntities
OnCumulativeRuntime == ev.e \in CumulativeRuntimeEntities

\* a metric that resets daily: everything but the lifetime gallons sensor
IsDailyMetric == OnDailyRuntime \/ OnCumulativeRuntime \/ (OnGallons /\ Daily(ev.e))

Post ==
    IF OnGallons THEN gallons[ev.e]
    ELSE IF OnDailyRuntime THEN daily_runtime[ev.e]
    ELSE cumulative_runtime[ev.e]

TotalOf(s) ==
    IF OnGallons THEN s.total_gallons
    ELSE IF OnDailyRuntime THEN s.total_hours
    ELSE s.total_seconds

BaselineOf(s) == IF OnCumulativeRuntime THEN s.last_raw_seconds ELSE s.last_update_ts

TodayIso == Some(IsoDate(today))

\* the tick found a stored last-reset date other than the date it read
DateDiffers == ev.pre.last_reset_date # TodayIso

\* the tick is a bootstrap tick of a timestamp-based accumulator
IsBootstrap == ~OnCumulativeRuntime /\ ev.pre.last_update_ts = None

\* seconds between the previous tick and this one, when there was one
Gap == now - ev.pre.last_update_ts.v

MinOf(a, b) == IF a < b THEN a ELSE b

\* the rate of the tick in tenths of a gallon per minute, 0 unless positive
PositiveRate == IF ev.raw.k = "int" /\ ev.raw.v > 0 THEN ev.raw.v ELSE 0

\* the field of the tick reads as active
ReadsActive == ev.raw.k = "int" /\ ev.raw.v > 0

\* the tick performed the midnight reset
DidReset == Post.last_reset_date # ev.pre.last_reset_date

---------------------------------------------------------------------------
\* C1: no total is ever negative, and a tick whose date is the stored
\* last-reset date (or any tick of the lifetime integrator) leaves the total
\* at least as large as it found it, whatever the elapsed time, the rate
\* (positive, zero, negative, absent) or the counter reading (lower than the
\* baseline included).
C1_TotalsNeverDecreaseWithinEpoch ==
    /\ \A e \in GallonsEntities : gallons[e].total_gallons >= 0
    /\ \A e \in DailyRuntimeEntities : daily_runtime[e].total_hours >= 0
    /\ \A e \in CumulativeRuntimeEntities : cumulative_runtime[e].total_seconds >= 0
    /\ (IsTick /\ (~IsDailyMetric \/ ~DateDiffers))
          => TotalOf(Post) >= TotalOf(ev.pre)

\* C1 witness: a same-day tick with a negative rate after 50 s or more, on a
\* total that is already positive; and the total stayed.
C1_Witness ==
    /\ IsTick /\ OnGallons
    /\ ~IsBootstrap /\ Gap > 0
    /\ (~Daily(ev.e) \/ ~DateDiffers)
    /\ ev.raw.k = "int" /\ ev.raw.v < 0
    /\ ev.pre.total_gallons > 0
    /\ Post.total_gallons = ev.pre.total_gallons

\* what the tick alone adds to a total that starts at 0: nothing for the
\* gallons and the counter trackers and on a bootstrap tick, the clamped
\* elapsed time for an active daily runtime field
OwnContributionAfterReset ==
    IF OnDailyRuntime /\ ~IsBootstrap /\ ReadsActive
    THEN MinOf(Gap, MaxElapsed) ELSE 0

\* C2 as claimed: a daily metric resets on the tick that first reads a new
\* calendar date, bootstrap tick or absent raw value included (nothing of
\* the old total is left after it), and on no tick that reads the same date
\* as the operation before it (such a tick never lowers the total).
C2_Original ==
    (IsTick /\ IsDailyMetric)
       => /\ today # ev.was_today => TotalOf(Post) = OwnContributionAfterReset
          /\ today = ev.was_today => TotalOf(Post) >= TotalOf(ev.pre)

\* the tick reaches the date test of update(): it is not a bootstrap tick
\* (gallons, daily runtime) and its counter reading is present and an
\* integer (cumulative runtime)
ReachesDateTest ==
    IF OnCumulativeRuntime THEN ev.raw.k = "int" ELSE ~IsBootstrap

\* C2 amended: a daily metric resets exactly on the ticks that reach the
\* date test and find the stored last-reset date different from today; a
\* bootstrap tick and a tick with an absent counter never reset, the reset
\* then waits for the next tick that reaches the test.  A resetting tick
\* keeps nothing of the old total; any other tick never lowers the total.
C2_ResetExactlyWhenDateTestFails ==
    (IsTick /\ IsDailyMetric)
       => /\ DidReset <=> (ReachesDateTest /\ DateDiffers)
          /\ DidReset => /\ Post.last_reset_date = TodayIso
                         /\ TotalOf(Post) = OwnContributionAfterReset
          /\ ~DidReset => TotalOf(Post) >= TotalOf(ev.pre)

\* C2 witness: a bootstrap tick read a new date and reset nothing, although
\* the total was positive.
C2_Witness ==
    /\ IsTick /\ OnGallons /\ Daily(ev.e)
    /\ IsBootstrap /\ today # ev.was_today /\ DateDiffers
    /\ ev.pre.total_gallons > 0
    /\ Post.total_gallons = ev.pre.total_gallons
    /\ Post.last_reset_date = ev.pre.last_reset_date

\* C3: a same-day counter tick with a baseline adds reading - baseline when
\* the reading is not below the baseline, the reading itself when it is, and
\* makes the reading the new baseline.
C3_CounterDeltaSameDay ==
    (/\ IsTick /\ OnCumulativeRuntime
     /\ ev.raw.k = "int"
     /\ ~DateDiffers
     /\ ev.pre.last_raw_seconds # None)
       => /\ ev.raw.v >= ev.pre.last_raw_seconds.v
             => Post.total_seconds =
                   ev.pre.total_seconds + (ev.raw.v - ev.pre.last_raw_seconds.v)
          /\ ev.raw.v < ev.pre.last_raw_seconds.v
             => Post.total_seconds = ev.pre.total_seconds + ev.raw.v
          /\ Post.last_raw_seconds = Some(ev.raw.v)

\* C3 witness: baseline 300, reading 50 on the same day, total grown by 50.
C3_Witness ==
    /\ IsTick /\ OnCumulativeRuntime
    /\ ~DateDiffers
    /\ ev.pre.last_raw_seconds = Some(300)
    /\ ev.raw = RawInt(50)
    /\ Post.total_seconds = ev.pre.total_seconds + 50
    /\ Post.last_raw_seconds = Some(50)

\* C4: a counter tick with a present reading on a date other than the
\* stored last-reset date sets the total to 0, the last-reset date to today
\* and the baseline to the reading, and adds no delta.
C4_CounterNewDayReset ==
    (/\ IsTick /\ OnCumulativeRuntime
     /\ ev.raw.k = "int"
     /\ DateDiffers)
       => /\ Post.total_seconds = 0
          /\ Post.last_reset_date = TodayIso
          /\ Post.attr_last_reset = Some(MidnightOf(today))
          /\ Post.last_raw_seconds = Some(ev.raw.v)

\* C4 witness: the old day ended with a positive total at reading 100, the
\* new day's first reading is 150, and nothing of the 50 was added.
C4_Witness ==
    /\ IsTick /\ OnCumulativeRuntime
    /\ DateDiffers
    /\ ev.pre.total_seconds > 0
    /\ ev.pre.last_raw_seconds = Some(100)
    /\ ev.raw = RawInt(150)
    /\ Post.total_seconds = 0

\* C5 as claimed: a non-bootstrap tick of the daily integrator on a new date
\* leaves exactly this tick's contribution as the total.
C5_Original ==
    (/\ IsTick /\ OnGallons /\ Daily(ev.e)
     /\ ~IsBootstrap
     /\ DateDiffers)
       => Post.total_gallons = PositiveRate * MinOf(Gap, MaxElapsed)

\* C5 amended: a non-bootstrap tick of the daily integrator on a date other
\* than the stored last-reset date sets the total to 0, records today as the
\* reset date, sets last_update_ts to now, publishes 0 and returns without
\* integrating: the tick's own contribution is dropped, the total after the
\* tick is exactly 0.
C5_DailyGallonsResetDropsTick ==
    (/\ IsTick /\ OnGallons /\ Daily(ev.e)
     /\ ~IsBootstrap
     /\ DateDiffers)
       => /\ Post.total_gallons = 0
          /\ Post.last_reset_date = TodayIso
          /\ Post.attr_last_reset = Some(MidnightOf(today))
          /\ Post.last_update_ts = Some(now)
          /\ daily_gallons[ev.e[1]] = Some(0)

\* C5 witness: the reset tick came 50 s or more after the previous one with
\* a positive rate and an old total, and left 0.
C5_Witness ==
    /\ IsTick /\ OnGallons /\ Daily(ev.e)
    /\ ~IsBootstrap /\ DateDiffers
    /\ Gap > 0 /\ PositiveRate > 0
    /\ ev.pre.total_gallons > 0
    /\ Post.total_gallons = 0

\* the rate of the tick as read, negative values included, 0 when absent
SignedRate == IF ev.raw.k = "int" THEN ev.raw.v ELSE 0

\* the tick of a gallons sensor stays within the day: the lifetime sensor
\* always, the daily sensor when the date is the stored last-reset date
GallonsTickWithinDay == IsTick /\ OnGallons /\ (~Daily(ev.e) \/ ~DateDiffers)

\* C6 as claimed: every tick within the day adds rate * min(elapsed, 120) / 60
\* for the rate read at the tick (a bootstrap tick adds nothing), so the total
\* after a sequence is the total before it plus the sum of these terms.
C6_Original ==
    GallonsTickWithinDay
       => Post.total_gallons =
             ev.pre.total_gallons
             + (IF IsBootstrap THEN 0 ELSE SignedRate * MinOf(Gap, MaxElapsed))

\* C6 amended: every tick within the day adds rate_i * min(elapsed_i, 120) / 60
\* where rate_i is the rate read at the tick when it is positive and 0 when it
\* is zero, negative, absent or unparseable; a bootstrap tick adds nothing.
\* By induction the total after any such sequence is the total before it
\* plus the sum of these terms over the non-bootstrap ticks.
C6_TotalIsSumOfPositiveRateTerms ==
    GallonsTickWithinDay
       => Post.total_gallons =
             ev.pre.total_gallons
             + (IF IsBootstrap THEN 0 ELSE PositiveRate * MinOf(Gap, MaxElapsed))

\* C6 witness: a second contribution on top of an earlier one: 2.5 gal/min
\* for 50 s on a positive total.
C6_Witness ==
    /\ GallonsTickWithinDay /\ ~IsBootstrap
    /\ ev.raw = RawInt(25) /\ Gap = 50
    /\ ev.pre.total_gallons > 0
    /\ Post.total_gallons = ev.pre.total_gallons + 1250

\* what a non-bootstrap tick added on top of the total it started from (0
\* after a reset)
AddedByTick == TotalOf(Post) - (IF DidReset THEN 0 ELSE TotalOf(ev.pre))

\* C7: the elapsed time a non-bootstrap tick of the integrator or of the
\* daily runtime tracker uses is min(now - last_update_ts, 120): a tick never
\* adds more than 120 s worth (rate * 2 gallons, 120/3600 hour), and after a
\* gap above 120 s an integrating tick adds exactly 120 s worth.
C7_ElapsedClampedTo120 ==
    (IsTick /\ ~OnCumulativeRuntime /\ ~IsBootstrap)
       => /\ OnGallons
             => /\ AddedByTick <= PositiveRate * 120
                /\ (~DidReset /\ Gap > 120) => AddedByTick = PositiveRate * 120
                /\ (~DidReset /\ Gap <= 120) => AddedByTick = PositiveRate * Gap
          /\ OnDailyRuntime
             => /\ AddedByTick <= 120
                /\ (ReadsActive /\ Gap > 120) => AddedByTick = 120
                /\ (ReadsActive /\ Gap <= 120) => AddedByTick = Gap
                /\ ~ReadsActive => AddedByTick = 0

\* C7 witness: 130 s since the previous tick at 2.5 gal/min: 5 gallons added.
C7_Witness ==
    /\ IsTick /\ OnGallons /\ ~IsBootstrap
    /\ Gap = 130 /\ ev.raw = RawInt(25)
    /\ Post.total_gallons = ev.pre.total_gallons + 3000

\* the store answered with a number
PersistedNumber == ev.last.k = "data" /\ ev.last.native_value.k = "num"

\* the store answered with the last_reset attribute of today's midnight
PersistedResetIsToday ==
    ev.last.k = "data" /\ ev.last.last_reset = DatetimeIsoformat(MidnightOf(today))

\* the size of one unit of the persisted value, in units of the total
PersistedUnit == IF OnGallons THEN GallonsRoundUnit ELSE HoursRoundUnit

\* C8: after the rehydration of a daily metric the reset date is today, and
\* the total is the persisted value when the persisted reset date is today,
\* and 0 when that date is another day, missing or unparseable (or no value
\* was persisted).
C8_DailyRestoreOnlySameDay ==
    (IsRestart /\ IsDailyMetric)
       => /\ Post.last_reset_date = TodayIso
          /\ Post.attr_last_reset = Some(MidnightOf(today))
          /\ (PersistedNumber /\ PersistedResetIsToday)
                => TotalOf(Post) = ev.last.native_value.v * PersistedUnit
          /\ ~(PersistedNumber /\ PersistedResetIsToday) => TotalOf(Post) = 0

\* C8 witness: a positive value persisted yesterday is dropped on restart.
C8_Witness ==
    /\ IsRestart /\ IsDailyMetric
    /\ today = ev.was_today + 1
    /\ PersistedNumber /\ ev.last.native_value.v > 0
    /\ ev.last.last_reset = DatetimeIsoformat(MidnightOf(ev.was_today))
    /\ TotalOf(ev.pre) > 0
    /\ TotalOf(Post) = 0

\* C9 as claimed: rehydration leaves the baseline absent, and a tick that
\* finds no baseline leaves the total as it found it.
C9_Original ==
    /\ IsRestart => BaselineOf(Post) = None
    /\ (IsTick /\ BaselineOf(ev.pre) = None) => TotalOf(Post) = TotalOf(ev.pre)

\* C9 amended: rehydration leaves the baseline absent, and a tick that finds
\* no baseline computes no delta: it leaves the total as it found it, except
\* that a Counter-Delta tick with a present reading on a date other than the
\* stored last-reset date resets the total to 0.  The baseline it leaves is
\* this tick's own reading (absent still when the counter was absent).
C9_FirstTickAfterRestartAddsNothing ==
    /\ IsRestart => BaselineOf(Post) = None
    /\ (IsTick /\ BaselineOf(ev.pre) = None)
          => /\ IF OnCumulativeRuntime /\ ev.raw.k = "int" /\ DateDiffers
                THEN TotalOf(Post) = 0
                ELSE TotalOf(Post) = TotalOf(ev.pre)
             /\ BaselineOf(Post) =
                   IF ~OnCumulativeRuntime THEN Some(now)
                   ELSE IF ev.raw.k = "int" THEN Some(ev.raw.v)
                   ELSE None

\* C9 witness: the first tick after a restart that restored a positive
\* total, with the field active and the clock past its origin, added nothing.
C9_Witness ==
    /\ IsTick /\ OnDailyRuntime
    /\ ev.pre.last_update_ts = None
    /\ ReadsActive /\ now > 0
    /\ ev.pre.total_hours > 0
    /\ Post.total_hours = ev.pre.total_hours
    /\ Post.last_update_ts = Some(now)

\* C10: the rehydration of the lifetime integrator restores a persisted
\* number as the total, whatever the date and the persisted last_reset; the
\* restored total reads back as the persisted value.
C10_LifetimeRestoreAnyDate ==
    (IsRestart /\ OnGallons /\ ~Daily(ev.e) /\ PersistedNumber)
       => /\ Post.total_gallons = ev.last.native_value.v * GallonsRoundUnit
          /\ GallonsNativeValue(Post) = ev.last.native_value.v
          /\ Post.last_reset_date = None

\* C10 witness: a positive lifetime value restored on the day after it was
\* persisted.
C10_Witness ==
    /\ IsRestart /\ OnGallons /\ ~Daily(ev.e)
    /\ today = ev.was_today + 1
    /\ PersistedNumber /\ ev.last.native_value.v > 0
    /\ Post.total_gallons = ev.last.native_value.v * GallonsRoundUnit

\* the store answered nothing, or a state without a value
NoPersistedValue == ev.last.k = "none" \/ ev.last.native_value.k = "none"

\* C11: rehydration without a persisted value leaves total 0 and no
\* baseline for every accumulator; the reset date is today for a daily
\* metric (and stays unset for the lifetime integrator).
C11_NoPersistedValueStartsAtZero ==
    (IsRestart /\ NoPersistedValue)
       => /\ TotalOf(Post) = 0
          /\ BaselineOf(Post) = None
          /\ IsDailyMetric
                => /\ Post.last_reset_date = TodayIso
                   /\ Post.attr_last_reset = Some(MidnightOf(today))
          /\ ~IsDailyMetric => Post.last_reset_date = None

\* C11 witness: a daily metric with a positive total restarts a day later
\* with an empty store.
C11_Witness ==
    /\ IsRestart /\ IsDailyMetric
    /\ ev.last = NoLastData
    /\ today = ev.was_today + 1
    /\ TotalOf(ev.pre) > 0
    /\ TotalOf(Post) = 0
    /\ Post.last_reset_date = TodayIso

\* C12: the lifetime integrator never resets: its last-reset date is unset
\* in every state and none of its ticks lowers the total, new calendar
\* dates included.
C12_LifetimeNeverResets ==
    /\ \A d \in Devices :
          /\ gallons[<<d, "total_gallons">>].last_reset_date = None
          /\ gallons[<<d, "total_gallons">>].attr_last_reset = None
    /\ (IsTick /\ OnGallons /\ ~Daily(ev.e))
          => Post.total_gallons >= ev.pre.total_gallons

\* C12 witness: a lifetime tick that reads a new date adds to a positive
\* total.
C12_Witness ==
    /\ IsTick /\ OnGallons /\ ~Daily(ev.e)
    /\ ~IsBootstrap
    /\ today = ev.was_today + 1
    /\ ev.pre.total_gallons > 0
    /\ Post.total_gallons > ev.pre.total_gallons

\* C13: a non-bootstrap tick of the daily runtime tracker starts from 0 when
\* the date differs from the stored reset date (and records today), from the
\* old total otherwise, and then adds the clamped elapsed seconds when the
\* field is active and nothing when it is not.
C13_DailyRuntimeResetThenAdd ==
    (IsTick /\ OnDailyRuntime /\ ~IsBootstrap)
       => /\ Post.total_hours =
                (IF DateDiffers THEN 0 ELSE ev.pre.total_hours)
                + (IF ReadsActive THEN MinOf(Gap, MaxElapsed) ELSE 0)
          /\ Post.last_reset_date = TodayIso
          /\ Post.attr_last_reset = Some(MidnightOf(today))
          /\ Post.last_update_ts = Some(now)

\* C13 witness: the day rolled over with the field active 50 s after the
\* previous tick: the old total is gone, 50 s are there.
C13_Witness ==
    /\ IsTick /\ OnDailyRuntime /\ ~IsBootstrap
    /\ DateDiffers /\ ReadsActive /\ Gap = 50
    /\ ev.pre.total_hours > 50
    /\ Post.total_hours = 50

\* C14: a same-day counter tick with a present reading and no baseline
\* records the reading as baseline and leaves total and reset date alone.
C14_CounterBootstrap ==
    (/\ IsTick /\ OnCumulativeRuntime
     /\ ev.raw.k = "int"
     /\ ~DateDiffers
     /\ ev.pre.last_raw_seconds = None)
       => /\ Post.last_raw_seconds = Some(ev.raw.v)
          /\ Post.total_seconds = ev.pre.total_seconds
          /\ Post.last_reset_date = ev.pre.last_reset_date
          /\ Post.attr_last_reset = ev.pre.attr_last_reset

\* C14 witness: the first reading after a restart is 300 and the restored
\* total stays.
C14_Witness ==
    /\ IsTick /\ OnCumulativeRuntime
    /\ ~DateDiffers
    /\ ev.pre.last_raw_seconds = None
    /\ ev.raw = RawInt(300)
    /\ ev.pre.total_seconds > 0
    /\ Post.total_seconds = ev.pre.total_seconds
    /\ Post.last_raw_seconds = Some(300)

\* C15: a bootstrap tick of the integrator records now as last_update_ts and
\* changes neither the total nor the reset date, whatever the rate, the
\* clock reading and the date.
C15_GallonsBootstrap ==
    (IsTick /\ OnGallons /\ IsBootstrap)
       => /\ Post.last_update_ts = Some(now)
          /\ Post.total_gallons = ev.pre.total_gallons
          /\ Post.last_reset_date = ev.pre.last_reset_date
          /\ Post.attr_last_reset = ev.pre.attr_last_reset

\* C15 witness: the first tick comes with the clock past its origin and a
\* positive rate, and the total is what it was.
C15_Witness ==
    /\ IsTick /\ OnGallons /\ IsBootstrap
    /\ now > 0 /\ PositiveRate > 0
    /\ ev.pre.total_gallons > 0
    /\ Post.total_gallons = ev.pre.total_gallons
    /\ Post.last_update_ts = Some(now)

\* C17: a counter tick whose reading is absent or no integer changes no
\* field of the tracker, on the same day and on a new day.
C17_CounterAbsentChangesNothing ==
    (IsTick /\ OnCumulativeRuntime /\ ev.raw.k # "int") => Post = ev.pre

\* C17 witness: an unparseable reading on a new day, with a total and a
\* baseline in place.
C17_Witness ==
    /\ IsTick /\ OnCumulativeRuntime
    /\ ev.raw = RawText
    /\ DateDiffers /\ today = ev.was_today + 1
    /\ ev.pre.total_seconds > 0
    /\ ev.pre.last_raw_seconds # None
    /\ Post = ev.pre

\* C18: a non-bootstrap tick of the integrator or of the daily runtime
\* tracker whose field is absent or no integer adds nothing and sets
\* last_update_ts to now.
C18_AbsentFieldAddsNothingMovesTimestamp ==
    (IsTick /\ ~OnCumulativeRuntime /\ ~IsBootstrap /\ ev.raw.k # "int")
       => /\ AddedByTick = 0
          /\ Post.last_update_ts = Some(now)

\* C18 witness: 130 s without a readable rate: the total stays and the
\* timestamp moves.
C18_Witness ==
    /\ IsTick /\ OnGallons /\ ~IsBootstrap
    /\ ev.raw = RawAbsent /\ Gap = 130
    /\ ev.pre.total_gallons > 0
    /\ Post.total_gallons = ev.pre.total_gallons
    /\ Post.last_update_ts = Some(now)

---------------------------------------------------------------------------
(* Vocabulary of the recorded runs. *)

RunLen == Len(hist.ticks)

\* every tick read the date the tracker was created on
RunSameDay == \A i \in 1..RunLen : hist.ticks[i].today = hist.day

\* every tick read an active field
RunAllActive == \A i \in 1..RunLen : IsActive(hist.ticks[i].raw)

\* consecutive ticks are d seconds apart
RunEvenlySpaced(d) ==
    \A i \in 2..RunLen : hist.ticks[i].now - hist.ticks[i-1].now = d

\* every tick read an integer counter
RunAllPresent == \A i \in 1..RunLen : hist.ticks[i].raw.k = "int"

\* no reading is below the one before
RunNonDecreasing ==
    \A i \in 2..RunLen : hist.ticks[i].raw.v >= hist.ticks[i-1].raw.v

\* C16: a daily runtime tracker created with total 0 that got n+1 same-day
\* ticks, all active, d <= 120 seconds apart, has total n * d seconds: the
\* first tick adds nothing and each later one adds d.
C16_EvenlySpacedActiveRun ==
    \A e \in added \cap DailyRuntimeEntities : \A d \in 0..MaxElapsed :
       (/\ RunLen >= 1
        /\ hist.start = 0
        /\ RunSameDay /\ RunAllActive /\ RunEvenlySpaced(d))
          => daily_runtime[e].total_hours = (RunLen - 1) * d

\* C16 witness: three active ticks 60 s apart from total 0 give 120 s.
C16_Witness ==
    /\ <<"d1", "daily_runtime">> \in added
    /\ RunLen = 3
    /\ hist.start = 0
    /\ RunSameDay /\ RunAllActive /\ RunEvenlySpaced(60)
    /\ daily_runtime[<<"d1", "daily_runtime">>].total_hours = 120

\* C19: a counter tracker created without baseline that got same-day ticks
\* with integer readings c_0 <= ... <= c_n has grown by c_n - c_0 since its
\* creation.
C19_NonDecreasingCounterRun ==
    \A e \in added \cap CumulativeRuntimeEntities :
       (/\ RunLen >= 1
        /\ RunSameDay /\ RunAllPresent /\ RunNonDecreasing)
          => cumulative_runtime[e].total_seconds =
                hist.start + hist.ticks[RunLen].raw.v - hist.ticks[1].raw.v

\* C19 witness: readings 100, 150, 225 after a restart that restored a
\* positive total: 125 s more.
C19_Witness ==
    /\ <<"d1", "motor_run_time">> \in added
    /\ RunLen = 3
    /\ RunSameDay
    /\ hist.ticks[1].raw = RawInt(100)
    /\ hist.ticks[2].raw = RawInt(150)
    /\ hist.ticks[3].raw = RawInt(225)
    /\ hist.start > 0
    /\ cumulative_runtime[<<"d1", "motor_run_time">>].total_seconds
          = hist.start + 125

\* C20: for every device the turnover value is absent when the capacity
\* (the configured pool size, 20000 when none is configured) is <= 0, and
\* otherwise is exactly volume / capacity * 100, where the volume is the
\* published daily gallons, 0 when never published. With the volume held
\* in 1/600 gallon that is the fraction (volume * 100) / (capacity * 600).
C20_TurnoverRatio ==
    \A d \in Devices :
       LET configured == options[<<"pool_size", d>>]
           capacity == IF configured = None THEN 20000 ELSE configured.v
           volume == IF daily_gallons[d] = None THEN 0 ELSE daily_gallons[d].v
           result == TurnoverNativeValue(d)
       IN  /\ capacity <= 0 => result = None
           /\ capacity > 0
                 => /\ result # None
                    /\ result.v.num = volume * 100
                    /\ result.v.den = capacity * 600

\* C20 witness: 1250/600 gallons into a pool of 100 gallons is 2.0833..
\* percent, not rounded; the other device, with nothing configured and
\* nothing published, has 0 percent of 20000 gallons.
C20_Witness ==
    /\ options[<<"pool_size", "d1">>] = Some(100)
    /\ daily_gallons["d1"] = Some(1250)
    /\ TurnoverNativeValue("d1") = Some([num |-> 125000, den |-> 60000])
    /\ options[<<"pool_size", "d2">>] = None
    /\ daily_gallons["d2"] = None
    /\ TurnoverNativeValue("d2") = Some([num |-> 0, den |-> 12000000])

\* C22: in every state after setup, rehydration and ticks, the value
\* published for a device whose daily gallons sensor is added to hass is
\* that sensor's current unrounded total; a device without one has no
\* published value.
C22_PublishedIsCurrentTotal ==
    \A d \in Devices :
       IF <<d, "daily_gallons">> \in added
       THEN daily_gallons[d] = Some(gallons[<<d, "daily_gallons">>].total_gallons)
       ELSE daily_gallons[d] = None

\* C22 witness: a day-rollover reset tick found a positive total and the
\* published value is 0 afterwards.
C22_Witness ==
    /\ IsTick /\ OnGallons /\ Daily(ev.e)
    /\ DidReset
    /\ ev.pre.total_gallons > 0
    /\ Post.total_gallons = 0
    /\ daily_gallons[ev.e[1]] = Some(0)

\* the sensors that reset daily: all but the lifetime gallons sensor
DailySensorStates ==
    {gallons[e] : e \in {g \in GallonsEntities : Daily(g)}}
    \cup {daily_runtime[e] : e \in DailyRuntimeEntities}
    \cup {cumulative_runtime[e] : e \in CumulativeRuntimeEntities}

\* C29: in every state every daily sensor has a stored last-reset date, and
\* its exposed last_reset is midnight of that date.
C29_LastResetIsMidnightOfResetDate ==
    \A s \in DailySensorStates :
       /\ s.last_reset_date # None
       /\ s.attr_last_reset = Some(MidnightOf(s.last_reset_date.v.day))

\* C29 witness: a counter tick on a new day moved the stored date and the
\* exposed last_reset together.
C29_Witness ==
    /\ IsTick /\ OnCumulativeRuntime
    /\ today = ev.was_today + 1
    /\ ev.pre.last_reset_date = Some(IsoDate(ev.was_today))
    /\ ev.pre.attr_last_reset = Some(MidnightOf(ev.was_today))
    /\ Post.last_reset_date = Some(IsoDate(today))
    /\ Post.attr_last_reset = Some(MidnightOf(today))

---------------------------------------------------------------------------
(* Properties of the program switch. *)

\* C23: once async_will_remove_from_hass has run, no refresh timer of the
\* switch is pending and none fires, a command that was awaiting the hub at
\* teardown included.
C23_NoTimerAfterTeardown ==
    switch.removed => (switch.timers = {} /\ switch.ev.op # "fired")

\* the 24 delays of the claim, in increasing order
ClaimedDelays ==
    <<5, 10, 15, 20, 25, 30, 35, 40, 45, 50, 55, 60,
      75, 90, 105, 120, 135, 150, 165, 180,
      210, 240, 270, 300>>

\* C24: at most 24 timers are pending, every pending timer was scheduled by
\* the command that called _schedule_refreshes last, and a command that
\* schedules leaves none of the timers pending it found.
C24_OnlyLastCommandsTimersPending ==
    /\ Cardinality(switch.timers) <= 24
    /\ \A t \in switch.timers : t.cmd = switch.scheduled.cmd
    /\ switch.ev.op = "returned"
          => /\ switch.timers \cap switch.ev.timers = {}
             /\ switch.scheduled.cmd = switch.ev.cmd

\* C24 witness: two commands overlapped, the second scheduled first, and
\* when the first returned it replaced the second's pending timers by its
\* own 24.
C24_Witness ==
    /\ switch.ev.op = "returned"
    /\ switch.ev.cmd = 1
    /\ switch.ev.timers # {}
    /\ \A t \in switch.ev.timers : t.cmd = 2
    /\ Cardinality(switch.timers) = 24
    /\ \A t \in switch.timers : t.cmd = 1

\* C25: a command whose hub call returns leaves exactly the 24 timers of
\* the claimed delays pending, each due its delay after the scheduling; the
\* timers fire in the order of the delays, each at its due time and at most
\* once; 300 s after a scheduling that nothing cancelled all 24 have fired
\* and none is left. A command whose hub call raises leaves the pending
\* timers and the held handles as they were.
C25_TaperingRefreshSchedule ==
    /\ switch.ev.op = "returned"
          => /\ Cardinality(switch.timers) = 24
             /\ {<<t.cmd, t.delay, t.due>> : t \in switch.timers}
                   = {<<switch.ev.cmd, ClaimedDelays[i],
                        switch.scheduled.at + ClaimedDelays[i]>> : i \in 1..24}
             /\ switch.scheduled.cmd = switch.ev.cmd
    /\ Len(switch.fired) <= 24
    /\ \A i \in 1..Len(switch.fired) :
          /\ switch.fired[i].cmd = switch.scheduled.cmd
          /\ switch.fired[i].delay = ClaimedDelays[i]
          /\ switch.fired[i].at = switch.scheduled.at + ClaimedDelays[i]
    /\ (/\ switch.scheduled.cmd # 0
        /\ switch.scheduled_refreshes # <<>>
        /\ switch.clock >= switch.scheduled.at + 300
        /\ \A t \in switch.timers : t.due > switch.clock)
          => (Len(switch.fired) = 24 /\ switch.timers = {})
    /\ switch.ev.op = "raised"
          => /\ switch.timers = switch.ev.timers
             /\ switch.scheduled_refreshes = switch.ev.handles

\* C25 witness: 300 s after the scheduling the 24th refresh has fired, 24
\* have fired in all and no timer is pending.
C25_Witness ==
    /\ switch.ev.op = "fired"
    /\ switch.clock = switch.scheduled.at + 300
    /\ Len(switch.fired) = 24
    /\ switch.fired[1].delay = 5
    /\ switch.fired[24].delay = 300
    /\ switch.timers = {}
    /\ ~switch.removed

\* C28: what is_on returns is the program's running flag as the hub holds
\* it, whatever self._state was before the read; a command, and the return
\* or the failure of its hub call, do not change what was reported.
C28_IsOnIsHubsRunningFlag ==
    /\ switch.ev.op = "is_on" => switch.read = Some(switch.ev.running)
    /\ switch.ev.op \in {"command", "returned", "raised"}
          => switch.read = switch.ev.read

\* C28 witness: turn_on wrote True, the hub still has the program stopped,
\* and is_on returned False while the command awaits the hub.
C28_Witness ==
    /\ switch.ev.op = "is_on"
    /\ switch.ev.state = TRUE
    /\ switch.ev.running = FALSE
    /\ \E call \in switch.calls : call.on
    /\ switch.read = Some(FALSE)

\* The flow's devices, their number, and the devices as a set
FlowDevices == options_flow.devices
FlowDeviceCount == Len(options_flow.devices)
FlowDeviceSet == {options_flow.devices[i] : i \in 1..Len(options_flow.devices)}

\* C30: the options flow shows the device forms in discovery order, one per
\* device, each after the inputs of the devices before it; the entry's
\* options stay as they were until the n-th input, and then hold every
\* device's submitted pool_size and target_turnovers and, under every other
\* key, what they held before; with no devices the flow aborts and the
\* options stay.
C30_OneFormPerDeviceThenEntry ==
    /\ Len(options_flow.shown) <= FlowDeviceCount
    /\ \A i \in 1..Len(options_flow.shown) : options_flow.shown[i] = FlowDevices[i]
    /\ \A i \in 1..Len(options_flow.submitted) :
          options_flow.submitted[i].device = FlowDevices[i]
    /\ options_flow.result = "form"
          => /\ Len(options_flow.submitted) < FlowDeviceCount
             /\ Len(options_flow.shown) = Len(options_flow.submitted) + 1
             /\ options = options_flow.before
    /\ options_flow.result = "create_entry"
          => /\ FlowDeviceCount >= 1
             /\ Len(options_flow.submitted) = FlowDeviceCount
             /\ Len(options_flow.shown) = FlowDeviceCount
             /\ \A i \in 1..FlowDeviceCount :
                   /\ options[<<"pool_size", FlowDevices[i]>>]
                         = Some(options_flow.submitted[i].input.pool_size)
                   /\ options[<<"target_turnovers", FlowDevices[i]>>]
                         = Some(options_flow.submitted[i].input.target_turnovers)
             /\ \A k \in OptionKeys :
                   k[2] \notin FlowDeviceSet => options[k] = options_flow.before[k]
    /\ options_flow.result = "abort"
          => /\ FlowDeviceCount = 0
             /\ options_flow.shown = <<>>
             /\ options = options_flow.before
    /\ (FlowDeviceCount = 0 /\ options_flow # NoFlow) => options_flow.result = "abort"

\* C30 witness: two devices, discovered as d2 then d1, got different
\* inputs and the entry was created after the second.
C30_Witness ==
    /\ options_flow.result = "create_entry"
    /\ FlowDevices = <<"d2", "d1">>
    /\ options_flow.shown = <<"d2", "d1">>
    /\ Len(options_flow.submitted) = 2
    /\ options_flow.submitted[1].input # options_flow.submitted[2].input
    /\ options # options_flow.before

\* The capacity and the target multiplier (in tenths) configured for device
\* d, the defaults taking the place of what is not configured
ConfiguredCapacity(d) ==
    IF options[<<"pool_size", d>>] = None THEN 20000
    ELSE options[<<"pool_size", d>>].v
ConfiguredMultiplier(d) ==
    IF options[<<"target_turnovers", d>>] = None THEN 10
    ELSE options[<<"target_turnovers", d>>].v

\* The daily volume published for device d, in 1/600 gallon
DailyVolume(d) == IF daily_gallons[d] = None THEN 0 ELSE daily_gallons[d].v

\* The daily volume that equals capacity x multiplier: capacity gallons
\* times multiplier/10, in 1/600 gallon
TargetVolume(d) == ConfiguredCapacity(d) * ConfiguredMultiplier(d) * 60

\* C21: for every device the target-met indicator is on exactly when the
\* daily volume is at least capacity x target multiplier, with the values
\* the options currently hold for that device and 20000 and 1.0 for those
\* they do not hold.
C21_TargetMetIffVolumeReachesTarget ==
    \A d \in Devices :
       /\ DailyVolume(d) >= TargetVolume(d) => TurnoverTargetIsOn(d)
       /\ DailyVolume(d) < TargetVolume(d) => ~TurnoverTargetIsOn(d)

\* C21 witness: with capacity 100 and multiplier 0.1 the daily volume is
\* exactly 10 gallons after a tick that integrated flow, and the indicator
\* of d1 is on.
C21_Witness ==
    /\ options[<<"pool_size", "d1">>] = Some(100)
    /\ options[<<"target_turnovers", "d1">>] = Some(1)
    /\ ev.op = "update"
    /\ DailyVolume("d1") = 6000
    /\ DailyVolume("d1") = TargetVolume("d1")
    /\ TurnoverTargetIsOn("d1")

\* The options of device d are the defaults or values the options flow
\* accepts
AcceptedOrDefault(d) ==
    /\ ConfiguredCapacity(d) >= 100
    /\ ConfiguredCapacity(d) <= 1000000
    /\ ConfiguredMultiplier(d) >= 1
    /\ ConfiguredMultiplier(d) <= 100

C26_StepTouchesOnlyItsOwnAccumulator ==
    [][ /\ \A e \in GallonsEntities :
              e # ev'.e => gallons'[e] = gallons[e]
        /\ \A e \in DailyRuntimeEntities :
              e # ev'.e => daily_runtime'[e] = daily_runtime[e]
        /\ \A e \in CumulativeRuntimeEntities :
              e # ev'.e => cumulative_runtime'[e] = cumulative_runtime[e]
        /\ \A d \in Devices :
              daily_gallons'[d] # daily_gallons[d] => ev'.e = <<d, "daily_gallons">>
      ]_vars

\* C26 witness: the lifetime gallons sensor of d1 just integrated flow into
\* its total while the daily sensors of d1 and d2, the daily runtime and
\* the motor run time of d1 all hold totals of their own, and the values
\* published for d1 and d2 are the daily sensors' totals.
C26_Witness ==
    /\ ev.op = "update"
    /\ ev.e = <<"d1", "total_gallons">>
    /\ gallons[ev.e].total_gallons > ev.pre.total_gallons
    /\ gallons[<<"d1", "daily_gallons">>].total_gallons > 0
    /\ gallons[<<"d2", "daily_gallons">>].total_gallons > 0
    /\ gallons[<<"d1", "daily_gallons">>].total_gallons
          # gallons[<<"d2", "daily_gallons">>].total_gallons
    /\ gallons[ev.e].total_gallons # gallons[<<"d1", "daily_gallons">>].total_gallons
    /\ daily_runtime[<<"d1", "daily_runtime">>].total_hours > 0
    /\ cumulative_runtime[<<"d1", "motor_run_time">>].total_seconds > 0
    /\ daily_gallons["d1"] = Some(gallons[<<"d1", "daily_gallons">>].total_gallons)
    /\ daily_gallons["d2"] = Some(gallons[<<"d2", "daily_gallons">>].total_gallons)

====
